---------------------------- MODULE Spec2Model ----------------------------
(***************************************************************************)
(* A model of the memory-management core of the Hermes VM:                 *)
(*   - WeakRefSlot  (include/hermes/VM/GCBase.h), tagged-pointer variant   *)
(*   - GCBase::IDTracker (include/hermes/VM/GCBase.h)                      *)
(*   - SegmentedArray (lib/VM/SegmentedArray.cpp)                          *)
(* Each component has its own specification (SpecWeakRefSlot,              *)
(* SpecIDTracker, SpecSegmentedArray); the variables of the other          *)
(* components stay at their initial values.  Assertions are modelled as in *)
(* a debug build: a failing assert stops the component (the process        *)
(* aborts) and leaves its data untouched.                                  *)
(***************************************************************************)
EXTENDS Integers, Sequences, FiniteSets, TLC

VARIABLES
    tagged_,        \* WeakRefSlot::tagged_, the slot's single word
    wrsFailed,      \* "" or the message of the assertion the slot's caller hit
    wrsLast,        \* history: the last WeakRefSlot call and the word before it
    objectIDMap_,   \* IDTracker::objectIDMap_, address -> NodeID
    nextID_,        \* IDTracker::nextID_
    nextNativeID_,  \* IDTracker::nextNativeID_
    idtFailed,      \* "" or the message of the assertion / hermes_fatal reached
    idtLast,        \* history: the last IDTracker call, its result, the state before
    idtSeen,        \* history: address -> ID the last getObjectID returned for it,
                    \* NoID once a moveObject/untrack touched the address
    idtIssued,      \* history: the IDs nextObjectID (object) and nextNativeID
                    \* (native) have handed out so far
    self,           \* the SegmentedArray cell the caller's MutableHandle refers to
    newSegmentedArray, \* the cell growRight/growLeft is building, NoArray otherwise
    segments,       \* the Segment cells of the heap, by address
    saOp,           \* the growth in progress and its locals; stage "idle" between calls
    saFailed,       \* "" or the message of the assertion reached
    saLast,         \* history: the last SegmentedArray call
    capSelf,        \* the sizes of an array under create / push_back: slotCapacity_
                    \* and size(), or NoSizes while no array is allocated
    capLast,        \* history: the last create / push_back on capSelf and the
                    \* counts of pushes, reallocations and slots copied so far
    gc,             \* the collector: GCBase::inGC_ and the phase of the collection
    weakRef,        \* the heap around the slot: is the referent strongly reachable,
                    \* is the weak reference that owns the slot itself reachable
    acceptor,       \* the RootAcceptor of the collection: the open section, the
                    \* sections begun so far, the last call it received
    rtPc,           \* where Runtime::markRoots / markWeakRoots stands
    gcLast,         \* history: the last collection or mutator-side GC call, and the
                    \* slot and the heap around it when it began
    idStart         \* an IDTracker built with some number of reserved IDs: that
                    \* number, its two counters, the last ID it handed out

wrsVars == <<tagged_, wrsFailed, wrsLast>>
idtVars == <<objectIDMap_, nextID_, nextNativeID_, idtFailed, idtLast, idtSeen, idtIssued>>
saVars == <<self, newSegmentedArray, segments, saOp, saFailed, saLast>>
capVars == <<capSelf, capLast>>
rtVars == <<gc, weakRef, acceptor, rtPc, gcLast>>
resVars == <<idStart>>
vars == <<wrsVars, idtVars, saVars, capVars, rtVars, resVars>>

Min(a, b) == IF a <= b THEN a ELSE b
Max(a, b) == IF a >= b THEN a ELSE b

(***************************************************************************)
(*                              WeakRefSlot                                *)
(***************************************************************************)

\* enum State { Unmarked = 0, Marked, Free }
Unmarked == 0
Marked == 1
Free == 2

\* The low two bits of the word hold the state: (tagged_ & 3).
kStateMask == 3

\* Number of distinct cell / slot addresses the model draws arguments from.
NumPtrs == 3

\* Addresses of GC cells: non-null and aligned so that the low two bits are free.
ObjPtrs == {(kStateMask + 1) * k : k \in 1..NumPtrs}
\* Addresses of other WeakRefSlots (free-list links), including null.
SlotPtrs == {0} \cup {(kStateMask + 1) * k : k \in 1..NumPtrs}

state(t) == t % (kStateMask + 1)

\* Mutant: any non-zero word counts as a pointer, state bits included.
hasPointer_AnyBits(t) == t # 0
hasPointer(t) == t > Free

hasValue(t) == hasPointer(t)

getPointer(t) == t - state(t)

nextFree(t) == t - Free

\* HermesValue, as far as the slot uses it: an object value carries a pointer.
encodeObjectValue(id) == <<"seg", id>>
isObject(v) == v[1] = "seg"
getObject(v) == v[2]

\* value(): HermesValue::encodeObjectValue(tagged_), under its two assertions.
valuePre(t) == state(t) = Unmarked /\ hasPointer(t)
slotValue(t) == encodeObjectValue(t)

\* What the storage of a slot can hold before the constructor writes it.
Words == {p + st : p \in SlotPtrs, st \in 0..kStateMask}

\* The word each method stores.
\* Mutant: reset keeps the state bits, as setPointer does.
resetWord_KeepState(t, v) == getObject(v) + state(t)
resetWord(t, v) == getObject(v)
\* Mutant: mark() leaves the word as it is.
markWord_NoTag(t) == t
markWord(t) == t + Marked
\* Mutant: unmark stores the bare state and loses the pointer.
unmarkWord_DropPointer(t) == Unmarked
unmarkWord(t) == t - Marked
\* Mutant: free stores the link without the Free tag.
freeWord_NoTag(t, next) == next
freeWord(t, next) == next + Free
\* Mutant: setPointer stores the bare pointer and loses the state bits.
setPointerWord_DropState(t, newPtr) == newPtr
setPointerWord(t, newPtr) == newPtr + state(t)
\* Mutant: clearPointer stores null and loses the state bits.
clearPointerWord_Null(t) == 0
clearPointerWord(t) == state(t)

\* The assertion each method makes on the slot before it writes.
\* Mutant: mark() does not assert the state.
markPre_Any(t) == TRUE
markPre(t) == state(t) = Unmarked
unmarkPre(t) == state(t) = Marked
\* Mutant: free() forgets that a marked (reachable) slot must not be freed.
freePre_AllowMarked(t) == state(t) # Free
freePre(t) == state(t) = Unmarked
setPointerPre(t) == state(t) # Free
nextFreePre(t) == state(t) = Free

\* A call of a slot method: the assertion, then the store into tagged_.
SlotCall(op, arg, ok, word, msg) ==
    /\ wrsFailed = ""
    /\ wrsLast' = [op |-> op, arg |-> arg, pre |-> tagged_,
                   prevOp |-> wrsLast.op, prevPre |-> wrsLast.pre]
    /\ IF ok
         THEN tagged_' = word /\ wrsFailed' = ""
         ELSE tagged_' = tagged_ /\ wrsFailed' = msg

WrsCall(op, arg, ok, word, msg) ==
    /\ SlotCall(op, arg, ok, word, msg)
    /\ UNCHANGED <<idtVars, saVars, capVars, rtVars, resVars>>

\* reset(v): v is an object value (v.isObject() is asserted); the post-assert
\* state() == Unmarked holds for every aligned object address.
WrsReset ==
    \E obj \in ObjPtrs :
        LET v == encodeObjectValue(obj)
        IN  WrsCall("reset", v,
                    isObject(v) /\ state(resetWord(tagged_, v)) = Unmarked,
                    resetWord(tagged_, v), "initial state should be unmarked")

WrsMark ==
    WrsCall("mark", 0, markPre(tagged_), markWord(tagged_), "already marked")

WrsUnmark ==
    WrsCall("unmark", 0, unmarkPre(tagged_), unmarkWord(tagged_), "not yet marked")

WrsFree ==
    \E next \in SlotPtrs :
        WrsCall("free", next, freePre(tagged_), freeWord(tagged_, next),
                "cannot free a reachable slot")

WrsSetPointer ==
    \E newPtr \in ObjPtrs :
        WrsCall("setPointer", newPtr, setPointerPre(tagged_),
                setPointerWord(tagged_, newPtr), "tried to update unallocated slot")

WrsClearPointer ==
    WrsCall("clearPointer", 0, TRUE, clearPointerWord(tagged_), "")

\* nextFree() const: reads the link, writes nothing.
WrsNextFree ==
    WrsCall("nextFree", 0, nextFreePre(tagged_), tagged_, "state() == Free")

\* WeakRefSlot(HermesValue v) { reset(v); } on storage holding any word.
WrsInit ==
    \E obj \in ObjPtrs, garbage \in Words :
        /\ tagged_ = resetWord(garbage, encodeObjectValue(obj))
        /\ wrsFailed = ""
        /\ wrsLast = [op |-> "construct", arg |-> encodeObjectValue(obj),
                      pre |-> garbage,
                      prevOp |-> "", prevPre |-> 0]

WrsNext ==
    \/ WrsReset
    \/ WrsMark
    \/ WrsUnmark
    \/ WrsFree
    \/ WrsSetPointer
    \/ WrsClearPointer
    \/ WrsNextFree

(***************************************************************************)
(*                               IDTracker                                 *)
(***************************************************************************)

\* ReservedObjectID: NoID = 0, Root = 1, one ID per root section (the twelve
\* sections Runtime::markRoots / markWeakRoots open), then FirstNonReservedID.
NoID == 0
FirstNonReservedID == 14

kIDStep == 2

\* std::numeric_limits<HeapSnapshot::NodeID>::max(), scaled down so that the
\* ID space can be exhausted.
NodeIDMax == 20

\* Number of distinct addresses (heap cells and native blocks share one map).
NumAddrs == 3
Addrs == 1..NumAddrs

Tracked(m) == DOMAIN m

MapErase(m, a) == [x \in (DOMAIN m) \ {a} |-> m[x]]

MapPut(m, a, id) == [x \in (DOMAIN m) \cup {a} |-> IF x = a THEN id ELSE m[x]]

IdtState == [map |-> objectIDMap_, nextID |-> nextID_, nextNativeID |-> nextNativeID_]

\* nextObjectID(): fatal when the counter is within kIDStep of the maximum,
\* otherwise pre-increments the counter and returns the new value.
\* Mutant: the exhaustion check is missing.
nextObjectIDFatal_Never(n) == FALSE
nextObjectIDFatal(n) == n >= NodeIDMax - kIDStep
\* Mutant: the counter is returned without being stepped.
nextObjectIDValue_NoStep(n) == n
\* Mutant: the counter is stepped by one, as if heap and native IDs shared it.
nextObjectIDValue_StepOne(n) == n + 1
\* nextID_ += kIDStep, in unsigned NodeID arithmetic.
nextObjectIDValue(n) == (n + kIDStep) % (NodeIDMax + 1)

nextNativeIDFatal(n) == n >= NodeIDMax - kIDStep
\* Mutant: the native counter is returned without being stepped.
nextNativeIDValue_NoStep(n) == n
nextNativeIDValue(n) == (n + kIDStep) % (NodeIDMax + 1)

IdtRecord(op, a, b, ret) ==
    idtLast' = [op |-> op, a |-> a, b |-> b, ret |-> ret,
                pre |-> IdtState, preSeen |-> idtSeen, preIssued |-> idtIssued]

\* Mutant: the lookup never finds the cell, every query assigns a new ID.
getObjectIDHit_Never(m, cell) == FALSE
getObjectIDHit(m, cell) == cell \in DOMAIN m

IdtGetObjectID ==
    \E cell \in Addrs :
        /\ idtFailed = ""
        /\ UNCHANGED <<wrsVars, saVars, capVars, rtVars, resVars>>
        /\ IF getObjectIDHit(objectIDMap_, cell)
             THEN /\ IdtRecord("getObjectID", cell, cell, objectIDMap_[cell])
                  /\ idtSeen' = [idtSeen EXCEPT ![cell] = objectIDMap_[cell]]
                  /\ UNCHANGED <<objectIDMap_, nextID_, nextNativeID_, idtFailed, idtIssued>>
             ELSE IF nextObjectIDFatal(nextID_)
               THEN /\ idtFailed' = "Ran out of object IDs"
                    /\ IdtRecord("getObjectID", cell, cell, NoID)
                    /\ UNCHANGED <<objectIDMap_, nextID_, nextNativeID_, idtSeen, idtIssued>>
               ELSE /\ nextID_' = nextObjectIDValue(nextID_)
                    /\ objectIDMap_' = MapPut(objectIDMap_, cell, nextID_')
                    /\ IdtRecord("getObjectID", cell, cell, nextID_')
                    /\ idtSeen' = [idtSeen EXCEPT ![cell] = nextID_']
                    /\ idtIssued' = [idtIssued EXCEPT !.object = @ \cup {nextID_'}]
                    /\ UNCHANGED <<nextNativeID_, idtFailed>>

IdtGetNativeID ==
    \E mem \in Addrs :
        /\ idtFailed = ""
        /\ UNCHANGED <<wrsVars, saVars, capVars, rtVars, resVars>>
        /\ IF mem \in DOMAIN objectIDMap_
             THEN /\ IdtRecord("getNativeID", mem, mem, objectIDMap_[mem])
                  /\ UNCHANGED <<objectIDMap_, nextID_, nextNativeID_, idtFailed, idtSeen,
                                 idtIssued>>
             ELSE IF nextNativeIDFatal(nextNativeID_)
               THEN /\ idtFailed' = "Ran out of native IDs"
                    /\ IdtRecord("getNativeID", mem, mem, NoID)
                    /\ UNCHANGED <<objectIDMap_, nextID_, nextNativeID_, idtSeen, idtIssued>>
               ELSE /\ nextNativeID_' = nextNativeIDValue(nextNativeID_)
                    /\ objectIDMap_' = MapPut(objectIDMap_, mem, nextNativeID_')
                    /\ IdtRecord("getNativeID", mem, mem, nextNativeID_')
                    /\ idtIssued' = [idtIssued EXCEPT !.native = @ \cup {nextNativeID_'}]
                    /\ UNCHANGED <<nextID_, idtFailed, idtSeen>>

\* The map moveObject leaves behind once it has found oldLocation tracked and
\* newLocation untracked: erase the old entry, then insert the new one.
\* Mutant: the old entry is not erased.
moveObjectMap_NoErase(m, oldLocation, newLocation) ==
    MapPut(m, newLocation, m[oldLocation])
moveObjectMap(m, oldLocation, newLocation) ==
    MapPut(MapErase(m, oldLocation), newLocation, m[oldLocation])

\* moveObject returns at once when the object does not move or is not tracked.
\* Mutant: the oldLocation == newLocation test is missing.
moveObjectReturnsEarly_UntrackedOnly(m, oldLocation, newLocation) ==
    oldLocation \notin DOMAIN m
moveObjectReturnsEarly(m, oldLocation, newLocation) ==
    oldLocation = newLocation \/ oldLocation \notin DOMAIN m

\* assert(objectIDMap_.count(newLocation) == 0)
\* Mutant: the assertion is missing.
moveObjectPre_None(m, newLocation) == TRUE
moveObjectPre(m, newLocation) == newLocation \notin DOMAIN m

IdtMoveObject ==
    \E oldLocation \in Addrs, newLocation \in Addrs :
        /\ idtFailed = ""
        /\ UNCHANGED <<wrsVars, saVars, capVars, rtVars, resVars>>
        /\ IdtRecord("moveObject", oldLocation, newLocation, NoID)
        /\ UNCHANGED idtIssued
        /\ IF moveObjectReturnsEarly(objectIDMap_, oldLocation, newLocation)
             THEN UNCHANGED <<objectIDMap_, nextID_, nextNativeID_, idtFailed, idtSeen>>
             ELSE IF ~moveObjectPre(objectIDMap_, newLocation)
               THEN /\ idtFailed' = "Moving to a location that is already tracked"
                    /\ UNCHANGED <<objectIDMap_, nextID_, nextNativeID_, idtSeen>>
               ELSE /\ objectIDMap_' = moveObjectMap(objectIDMap_, oldLocation, newLocation)
                    /\ idtSeen' = [idtSeen EXCEPT ![oldLocation] = NoID,
                                                   ![newLocation] = NoID]
                    /\ UNCHANGED <<nextID_, nextNativeID_, idtFailed>>

untrackObjectMap(m, cell) == MapErase(m, cell)

IdtUntrackObject ==
    \E cell \in Addrs :
        /\ idtFailed = ""
        /\ UNCHANGED <<wrsVars, saVars, capVars, rtVars, resVars>>
        /\ IdtRecord("untrackObject", cell, cell, NoID)
        /\ UNCHANGED idtIssued
        /\ objectIDMap_' = untrackObjectMap(objectIDMap_, cell)
        /\ idtSeen' = [idtSeen EXCEPT ![cell] = NoID]
        /\ UNCHANGED <<nextID_, nextNativeID_, idtFailed>>

\* untrackNative(mem) { untrackObject(mem); }
IdtUntrackNative ==
    \E mem \in Addrs :
        /\ idtFailed = ""
        /\ UNCHANGED <<wrsVars, saVars, capVars, rtVars, resVars>>
        /\ IdtRecord("untrackNative", mem, mem, NoID)
        /\ UNCHANGED idtIssued
        /\ objectIDMap_' = untrackObjectMap(objectIDMap_, mem)
        /\ idtSeen' = [idtSeen EXCEPT ![mem] = NoID]
        /\ UNCHANGED <<nextID_, nextNativeID_, idtFailed>>

IdtInit ==
    /\ objectIDMap_ = <<>>
    /\ nextID_ = FirstNonReservedID + (FirstNonReservedID % 2)
    /\ nextNativeID_ = nextID_ + 1
    /\ idtFailed = ""
    /\ idtSeen = [a \in Addrs |-> NoID]
    /\ idtIssued = [object |-> {}, native |-> {}]
    /\ idtLast = [op |-> "construct", a |-> 0, b |-> 0, ret |-> NoID,
                  pre |-> [map |-> <<>>, nextID |-> nextID_,
                           nextNativeID |-> nextNativeID_],
                  preSeen |-> idtSeen, preIssued |-> idtIssued]

IdtNext ==
    \/ IdtGetObjectID
    \/ IdtGetNativeID
    \/ IdtMoveObject
    \/ IdtUntrackObject
    \/ IdtUntrackNative

(***************************************************************************)
(*                             SegmentedArray                              *)
(*                                                                         *)
(* The heap holds the array cell the caller's handle refers to (self), the *)
(* cell a reallocating growth is building (newSegmentedArray) and the      *)
(* Segment cells.  Segments are cells of their own: an array's slot holds  *)
(* a pointer to the segment, and two array cells can point to one segment. *)
(* A growth is split at its allocation points: every state with            *)
(* saOp.stage = "alloc" is the moment just before Segment::create          *)
(* allocates, where a collection can run and trace every live array.       *)
(***************************************************************************)

\* SegmentedArray::kValueToSegmentThreshold and Segment::kMaxLength, scaled
\* down (the layout arithmetic is the code's; only the two sizes are small).
kValueToSegmentThreshold == 2
kMaxLength == 2

\* The largest size and capacity the callers of the model ask for.
MaxSize == 5

\* std::numeric_limits<size_type>::max(), scaled down.
SizeTypeMax == 63

\* Values the callers push.
PushValues == {1}

\* HermesValues an array slot or a segment element can hold.
EmptyValue == <<"empty", 0>>
Uninit == <<"uninit", 0>>
encodeNumber(v) == <<"elem", v>>
isEmpty(v) == v = EmptyValue
isSegment(v) == v[1] = "seg"
isInitialized(v) == v # Uninit

toSegment(index) == (index - kValueToSegmentThreshold) \div kMaxLength

toInterior(index) == (index - kValueToSegmentThreshold) % kMaxLength

numSlotsForCapacity(capacity) ==
    IF capacity <= kValueToSegmentThreshold
      THEN capacity
      ELSE kValueToSegmentThreshold
             + ((capacity - kValueToSegmentThreshold + kMaxLength - 1) \div kMaxLength)

maxNumSegments == (SizeTypeMax - kValueToSegmentThreshold) \div kMaxLength

maxElements == maxNumSegments * kMaxLength + kValueToSegmentThreshold

\* The growth policy: at least double the old size, never more than the
\* maximum; a request above the maximum is passed on for create to reject.
calculateNewCapacity(oldSize, newSize) ==
    IF newSize > maxElements
      THEN newSize
      ELSE Min(Max(2 * oldSize, newSize), maxElements)

\* Segment cells the heap can hold at once: those of the old and of the new
\* array of a reallocation.
SegIds == 1..(2 * (numSlotsForCapacity(MaxSize) - kValueToSegmentThreshold))

\* No cell at this address.
NoSegment == [live |-> FALSE, length |-> 0, data |-> [i \in 0..(kMaxLength - 1) |-> Uninit]]

\* Segment(Runtime *): length_(0); the data is whatever the allocator left.
newSegment == [live |-> TRUE, length |-> 0, data |-> [i \in 0..(kMaxLength - 1) |-> Uninit]]

\* SegmentedArray(Runtime *, capacity): slotCapacity_ set, numSlotsUsed_ 0,
\* the trailing storage is whatever the allocator left.
newArray(capacity) ==
    [slotCapacity |-> numSlotsForCapacity(capacity),
     numSlotsUsed |-> 0,
     slots |-> [i \in 0..(numSlotsForCapacity(capacity) - 1) |-> Uninit]]

NoArray == newArray(0)

\* Segment::setLengthWithoutFilling
setLengthWithoutFilling(seg, newLength) == [seg EXCEPT !.length = newLength]

\* Mutant: setLength only sets the length.
setLength_NoFill(seg, newLength) == [seg EXCEPT !.length = newLength]

\* Segment::setLength: a growing length fills the added elements with empty.
setLength(seg, newLength) ==
    setLengthWithoutFilling(
        [seg EXCEPT !.data = [i \in DOMAIN seg.data |->
                                 IF seg.length <= i /\ i < newLength
                                   THEN EmptyValue ELSE seg.data[i]]],
        newLength)

\* segmentAt(n): the Segment cell slot kValueToSegmentThreshold + n points to.
segmentID(cell, n) == cell.slots[kValueToSegmentThreshold + n][2]

size(cell, segs) ==
    IF cell.numSlotsUsed <= kValueToSegmentThreshold
      THEN cell.numSlotsUsed
      ELSE LET numSegments == cell.numSlotsUsed - kValueToSegmentThreshold
           IN  kValueToSegmentThreshold + (numSegments - 1) * kMaxLength
                 + segs[segmentID(cell, numSegments - 1)].length

capacity(cell) ==
    IF cell.slotCapacity <= kValueToSegmentThreshold
      THEN cell.slotCapacity
      ELSE kValueToSegmentThreshold
             + (cell.slotCapacity - kValueToSegmentThreshold) * kMaxLength

\* at(index): inline below the threshold, inside a segment from it on.
at(cell, segs, index) ==
    IF index < kValueToSegmentThreshold
      THEN cell.slots[index]
      ELSE segs[segmentID(cell, toSegment(index))].data[toInterior(index)]

\* at(index).set(v): the array cell and the segment table after the write.
setAt(h, index, v) ==
    IF index < kValueToSegmentThreshold
      THEN [h EXCEPT !.cell.slots[index] = v]
      ELSE [h EXCEPT !.segs[segmentID(h.cell, toSegment(index))].data[toInterior(index)] = v]

\* GCHermesValue::fill on inlineStorage() + from .. inlineStorage() + to.
fillSlots(cell, from, to, v) ==
    [cell EXCEPT !.slots = [i \in DOMAIN cell.slots |->
                               IF from <= i /\ i < to THEN v ELSE cell.slots[i]]]

\* GCHermesValue::fill over the iterator range begin() + from .. begin() + to.
RECURSIVE fillElements(_, _, _, _)
fillElements(h, from, to, v) ==
    IF from >= to THEN h ELSE fillElements(setAt(h, from, v), from + 1, to, v)

\* GCHermesValue::copy inside one array: first .. last to result .., ascending.
RECURSIVE copyElements(_, _, _, _)
copyElements(h, first, last, result) ==
    IF first >= last
      THEN h
      ELSE copyElements(setAt(h, result, at(h.cell, h.segs, first)),
                        first + 1, last, result + 1)

\* GCHermesValue::copy_backward inside one array: first .. last to .. result,
\* descending.
RECURSIVE copy_backward(_, _, _, _)
copy_backward(h, first, last, result) ==
    IF first >= last
      THEN h
      ELSE copy_backward(setAt(h, result - 1, at(h.cell, h.segs, last - 1)),
                         first, last - 1, result - 1)

\* GCHermesValue::copy from another array cell (from), ascending.
RECURSIVE copyFrom(_, _, _, _, _)
copyFrom(h, from, first, last, result) ==
    IF first >= last
      THEN h
      ELSE copyFrom(setAt(h, result, at(from, h.segs, first)),
                    from, first + 1, last, result + 1)

\* The logical contents, index 0 first.
Elements(cell, segs) == [i \in 1..size(cell, segs) |-> at(cell, segs, i - 1)]

\* size_type arithmetic wraps.
Wrap(n) == n % (SizeTypeMax + 1)

\* The heap H is [self, new, segs]; a growth works on the array H[tgt].
View(H, tgt) == [cell |-> H[tgt], segs |-> H.segs]

\* The slots an array of the model can have: a reallocation at most doubles.
SlotIndexes == 0..(numSlotsForCapacity(2 * MaxSize) - 1)

\* What a collection marks from the live arrays (roots): the segment
\* pointers in their slots below numSlotsUsed_ (SegmentedArrayBuildMeta).
markedSlots(H, roots) ==
    {p \in roots \X SlotIndexes :
        /\ p[2] \in DOMAIN H[p[1]].slots
        /\ p[2] < H[p[1]].numSlotsUsed
        /\ isSegment(H[p[1]].slots[p[2]])}

\* The compaction: moved[id] is the address the live Segment cell id moves
\* to.  The marked slots are updated, the cells are moved, everything else
\* is reclaimed.
Compact(H, roots, marked, moved) ==
    LET update(r) ==
            [H[r] EXCEPT !.slots = [i \in DOMAIN H[r].slots |->
                IF <<r, i>> \in marked
                  THEN encodeObjectValue(moved[H[r].slots[i][2]])
                  ELSE H[r].slots[i]]]
    IN  [self |-> IF "self" \in roots THEN update("self") ELSE H.self,
         new |-> IF "new" \in roots THEN update("new") ELSE H.new,
         segs |-> [n \in SegIds |->
                     IF \E id \in DOMAIN moved : moved[id] = n
                       THEN H.segs[CHOOSE id \in DOMAIN moved : moved[id] = n]
                       ELSE NoSegment]]

\* The forwarding addresses: the live cells take the lowest addresses in the
\* order they are marked, self before the new array.
Forward(H, roots, marked) ==
    LET idOf(p) == H[p[1]].slots[p[2]][2]
        key(p) == (IF p[1] = "self" THEN 0 ELSE Cardinality(SlotIndexes)) + p[2]
        firstKey(id) ==
            CHOOSE k \in {key(p) : p \in {q \in marked : idOf(q) = id}} :
                \A q \in marked : idOf(q) = id => k <= key(q)
        liveIds == {idOf(p) : p \in marked}
    IN  Compact(H, roots, marked,
                [id \in liveIds |->
                    1 + Cardinality({j \in liveIds : firstKey(j) < firstKey(id)})])

\* A collection at an allocation: a moving collector.  Every Segment cell no
\* live array points to is reclaimed, the others are moved down to the lowest
\* addresses in the order they are marked (self before the new array), and
\* the slots that were marked are updated.  Slots at or above numSlotsUsed_
\* are not traced and keep their stale bits.
Collect(H, roots) == Forward(H, roots, markedSlots(H, roots))

\* The arrays that are live while a growth works on H[tgt].
Roots(tgt) == IF tgt = "new" THEN {"self", "new"} ELSE {"self"}

\* After Segment::create: the allocation collects, then the new cell takes
\* the lowest free address.
freeSegment(segs) ==
    CHOOSE i \in SegIds : ~segs[i].live /\ \A j \in SegIds : ~segs[j].live => i <= j

\* allocateSegment, if it also declared the new segment full.
allocateSegment_SetsLength(H, tgt, segment) ==
    LET G == Collect(H, Roots(tgt))
        id == freeSegment(G.segs)
    IN  [G EXCEPT !.segs[id] = setLengthWithoutFilling(newSegment, kMaxLength),
                  ![tgt].slots[kValueToSegmentThreshold + segment] = encodeObjectValue(id)]

\* allocateSegment(self, segment) on the array H[tgt].
allocateSegment(H, tgt, segment) ==
    LET G == Collect(H, Roots(tgt))
        id == freeSegment(G.segs)
    IN  [G EXCEPT !.segs[id] = newSegment,
                  ![tgt].slots[kValueToSegmentThreshold + segment] = encodeObjectValue(id)]

\* increaseSize, if it raised numSlotsUsed_ to the threshold without filling.
fillInlineStorage_NoFill(cell, currSize) ==
    [cell EXCEPT !.numSlotsUsed = kValueToSegmentThreshold]

\* increaseSize when the old size is inline and the final size is not: fill
\* inline storage up to the threshold with empty and set numSlotsUsed_ to it.
fillInlineStorage(cell, currSize) ==
    [fillSlots(cell, currSize, kValueToSegmentThreshold, EmptyValue)
       EXCEPT !.numSlotsUsed = kValueToSegmentThreshold]

\* numSlotsUsed_ while increaseSize allocates: raised to its final value
\* before the first allocation, so that a trim does not take the new slots.
\* Mutant: numSlotsUsed_ covers the inline storage only and is raised after
\* the allocations.
numSlotsUsedWhileAllocating_Inline(newNumSlotsUsed) == kValueToSegmentThreshold
numSlotsUsedWhileAllocating(newNumSlotsUsed) == newNumSlotsUsed

\* increaseSize<Fill>, up to its first allocation: the array cell, the
\* locals, and the segment numbers it goes on to allocate, in order.
increaseSizeBegin(Fill, cell, segs, amount) ==
    LET currSize == size(cell, segs)
        finalSize == Wrap(currSize + amount)
    IN  IF currSize <= kValueToSegmentThreshold /\ finalSize <= kValueToSegmentThreshold
          THEN [cell |-> [(IF Fill THEN fillSlots(cell, currSize, finalSize, EmptyValue)
                                   ELSE cell)
                            EXCEPT !.numSlotsUsed = finalSize],
                inline |-> TRUE, finalSize |-> finalSize,
                startSegment |-> 0, lastSegment |-> 0, toAlloc |-> <<>>]
          ELSE LET c1 == IF currSize <= kValueToSegmentThreshold
                           THEN fillInlineStorage(cell, currSize)
                           ELSE cell
                   startSegment == IF currSize <= kValueToSegmentThreshold
                                     THEN 0 ELSE toSegment(currSize - 1)
                   lastSegment == toSegment(finalSize - 1)
                   newNumSlotsUsed == numSlotsForCapacity(finalSize)
                   c2 == [fillSlots(c1, c1.numSlotsUsed, newNumSlotsUsed, EmptyValue)
                            EXCEPT !.numSlotsUsed =
                                numSlotsUsedWhileAllocating(newNumSlotsUsed)]
                   first == IF /\ startSegment <= lastSegment
                               /\ isEmpty(c2.slots[kValueToSegmentThreshold + startSegment])
                              THEN <<startSegment>> ELSE <<>>
                   rest == [k \in 1..(lastSegment - startSegment) |-> startSegment + k]
               IN  [cell |-> c2, inline |-> FALSE, finalSize |-> finalSize,
                    startSegment |-> startSegment, lastSegment |-> lastSegment,
                    toAlloc |-> first \o rest]

\* Mutant: every segment is declared full, the last one too.
segmentLength_AlwaysFull(i, lastSegment, finalSize) == kMaxLength

\* The length increaseSize gives segment i once every allocation is done.
segmentLength(i, lastSegment, finalSize) ==
    IF i = lastSegment THEN toInterior(finalSize - 1) + 1 ELSE kMaxLength

\* increaseSize<Fill>, after its last allocation: the loop that sets the
\* length of the segments startSegment .. lastSegment, i first.
RECURSIVE increaseSizeFinish(_, _, _, _, _, _)
increaseSizeFinish(Fill, cell, segs, i, lastSegment, finalSize) ==
    IF i > lastSegment
      THEN segs
      ELSE LET id == segmentID(cell, i)
               len == segmentLength(i, lastSegment, finalSize)
           IN  increaseSizeFinish(Fill, cell,
                   [segs EXCEPT ![id] = IF Fill THEN setLength(segs[id], len)
                                                ELSE setLengthWithoutFilling(segs[id], len)],
                   i + 1, lastSegment, finalSize)

\* decreaseSize, if it also gave the slots above the new size back.
decreaseSize_Trim(h, amount) ==
    LET finalSize == size(h.cell, h.segs) - amount
    IN  IF finalSize <= kValueToSegmentThreshold
          THEN [h EXCEPT !.cell.numSlotsUsed = finalSize,
                         !.cell.slotCapacity = finalSize]
          ELSE [h EXCEPT !.segs[segmentID(h.cell, toSegment(finalSize - 1))] =
                             setLength(@, toInterior(finalSize - 1) + 1),
                         !.cell.numSlotsUsed = numSlotsForCapacity(finalSize),
                         !.cell.slotCapacity = numSlotsForCapacity(finalSize)]

\* decreaseSize, if it left numSlotsUsed_ alone once segments are in use.
decreaseSize_KeepsSlotsUsed(h, amount) ==
    LET finalSize == size(h.cell, h.segs) - amount
    IN  IF finalSize <= kValueToSegmentThreshold
          THEN [h EXCEPT !.cell.numSlotsUsed = finalSize]
          ELSE [h EXCEPT !.segs[segmentID(h.cell, toSegment(finalSize - 1))] =
                             setLength(@, toInterior(finalSize - 1) + 1)]

\* decreaseSize(amount), with amount <= size().
decreaseSize(h, amount) ==
    LET finalSize == size(h.cell, h.segs) - amount
    IN  IF finalSize <= kValueToSegmentThreshold
          THEN [h EXCEPT !.cell.numSlotsUsed = finalSize]
          ELSE [h EXCEPT !.segs[segmentID(h.cell, toSegment(finalSize - 1))] =
                             setLength(@, toInterior(finalSize - 1) + 1),
                         !.cell.numSlotsUsed = numSlotsForCapacity(finalSize)]

\* shrinkLeft, if it copied from amount + 1 on.
shrinkLeft_OffByOne(h, amount) ==
    decreaseSize(copyElements(h, Min(amount + 1, size(h.cell, h.segs)),
                              size(h.cell, h.segs), 0), amount)

\* shrinkLeft(amount): move the tail down to index 0, then decreaseSize.
shrinkLeft(h, amount) ==
    decreaseSize(copyElements(h, amount, size(h.cell, h.segs), 0), amount)

\* growLeftWithinCapacity's tail, if it copied from the first element up.
growLeftShift_Forward(h, amount) ==
    fillElements(
        copyElements(h, 0, size(h.cell, h.segs) - amount, amount),
        0, amount, EmptyValue)

\* push_back, if it read the size after growing.
push_backIndex_AfterGrow(oldSize) == oldSize + 1

\* push_back stores at the size it read before growing.
push_backIndex(oldSize) == oldSize

\* growLeft's tail on a new array: fill the first amount elements with
\* empty, then copy the old array's elements in behind them.
growLeftCopy(h, from, amount) ==
    copyFrom(fillElements(h, 0, amount, EmptyValue),
             from, 0, size(from, h.segs), amount)

\* growLeftWithinCapacity's tail: shift the old elements up by amount, from
\* the last one down, then fill the first amount elements with empty.
growLeftShift(h, amount) ==
    fillElements(
        copy_backward(h, 0, size(h.cell, h.segs) - amount, size(h.cell, h.segs)),
        0, amount, EmptyValue)

\* growRight's copy into the new array: the slots below numSlotsUsed_, inline
\* values and segment pointers alike, and numSlotsUsed_ itself.
growRightCopy(new, old) ==
    [new EXCEPT !.slots = [i \in DOMAIN new.slots |->
                              IF i < old.numSlotsUsed THEN old.slots[i] ELSE new.slots[i]],
                !.numSlotsUsed = old.numSlotsUsed]

\* growRight takes the in-place path when size() + amount <= capacity().
growRightFits(sz, amount, cap) == Wrap(sz + amount) <= cap

\* growLeft takes the in-place path when size() + amount < capacity().
growLeftFits(sz, amount, cap) == Wrap(sz + amount) < cap

IdleOp ==
    [stage |-> "idle", name |-> "", target |-> "self", Fill |-> FALSE, left |-> FALSE,
     amount |-> 0, finalSize |-> 0, startSegment |-> 0, lastSegment |-> 0,
     toAlloc |-> <<>>, done |-> <<>>, value |-> EmptyValue, oldSize |-> 0, pre |-> <<>>]

Heap == [self |-> self, new |-> newSegmentedArray, segs |-> segments]

\* The call is still inside increaseSize, at an allocation point.
Suspend(op, H) ==
    /\ saOp' = op
    /\ self' = H.self
    /\ newSegmentedArray' = H.new
    /\ segments' = H.segs
    /\ saFailed' = saFailed

\* What follows increaseSize in the caller, and the hand-back to the handle:
\* the state the call returns with.  After a reallocation the handle refers
\* to the new cell and nothing refers to the old one.
Return(op, H) ==
    LET h0 == View(H, op.target)
        h1 == IF ~op.left THEN h0
              ELSE IF op.target = "new" THEN growLeftCopy(h0, H.self, op.amount)
              ELSE growLeftShift(h0, op.amount)
        h2 == IF op.name = "push_back"
                THEN setAt(h1, push_backIndex(op.oldSize), op.value) ELSE h1
        G == IF op.target = "new"
               THEN Collect([self |-> h2.cell, new |-> NoArray, segs |-> h2.segs], {"self"})
               ELSE [self |-> h2.cell, new |-> NoArray, segs |-> h2.segs]
    IN  /\ self' = G.self
        /\ segments' = G.segs
        /\ newSegmentedArray' = NoArray
        /\ saOp' = IdleOp
        /\ saFailed' = saFailed

\* increaseSize<op.Fill>(H[op.target], op.incr) from its entry to its first
\* allocation point, or to the call's return when it allocates nothing.
Enter(op, H) ==
    LET r == increaseSizeBegin(op.Fill, H[op.target], H.segs, op.incr)
        H1 == [H EXCEPT ![op.target] = r.cell]
        op1 == [stage |-> "alloc", name |-> op.name, target |-> op.target,
                Fill |-> op.Fill, left |-> op.left, amount |-> op.amount,
                finalSize |-> r.finalSize, startSegment |-> r.startSegment,
                lastSegment |-> r.lastSegment, toAlloc |-> r.toAlloc, done |-> <<>>,
                value |-> op.value, oldSize |-> op.oldSize, pre |-> op.pre]
    IN  IF r.inline
          THEN Return(op1, H1)
          ELSE IF r.toAlloc = <<>>
            THEN Return(op1, [H1 EXCEPT !.segs =
                                 increaseSizeFinish(op.Fill, r.cell, H1.segs,
                                     r.startSegment, r.lastSegment, r.finalSize)])
            ELSE Suspend(op1, H1)

\* SegmentedArray::create(runtime, capacity) inside growRight / growLeft: the
\* allocation of the new array cell, which may collect.
createNew(H, cap) == [Collect(H, {"self"}) EXCEPT !.new = newArray(cap)]

Called(name, amount, path, status) ==
    saLast' = [op |-> name, amount |-> amount, path |-> path, status |-> status]

\* growRight / growLeft (left), or their WithinCapacity form (within); name
\* is the primitive, or push_back, and value is what push_back stores.
Grow(name, left, within, amount, value) ==
    LET sz == size(self, segments)
        fits == IF left THEN growLeftFits(sz, amount, capacity(self))
                        ELSE growRightFits(sz, amount, capacity(self))
        newSize == Wrap(sz + amount)
        newCapacity == calculateNewCapacity(sz, newSize)
        op == [name |-> name, left |-> left, amount |-> amount, value |-> value,
               oldSize |-> sz, pre |-> Elements(self, segments)]
    IN  IF within \/ fits
          THEN /\ Called(name, amount, "inplace", "RETURNED")
               /\ Enter(op @@ [target |-> "self", Fill |-> ~left, incr |-> amount], Heap)
          ELSE IF newCapacity > maxElements
            THEN /\ Called(name, amount, "realloc", "EXCEPTION")
                 /\ UNCHANGED <<self, newSegmentedArray, segments, saOp, saFailed>>
            ELSE /\ Called(name, amount, "realloc", "RETURNED")
                 /\ IF left
                      THEN Enter(op @@ [target |-> "new", Fill |-> FALSE, incr |-> newSize],
                                 createNew(Heap, newCapacity))
                      ELSE LET H == createNew(Heap, newCapacity)
                           IN  Enter(op @@ [target |-> "new", Fill |-> TRUE, incr |-> amount],
                                     [H EXCEPT !.new = growRightCopy(H.new, H.self)])

\* shrinkRight / shrinkLeft (left).
Shrink(name, left, amount) ==
    LET h == [cell |-> self, segs |-> segments]
        r == IF left THEN shrinkLeft(h, amount) ELSE decreaseSize(h, amount)
    IN  /\ Called(name, amount, "shrink", "RETURNED")
        /\ self' = r.cell
        /\ segments' = r.segs
        /\ UNCHANGED <<newSegmentedArray, saOp, saFailed>>

Idle == saOp.stage = "idle" /\ saFailed = ""

\* The sizes the callers ask for stay within MaxSize.
Amounts == 0..(MaxSize - size(self, segments))

push_back ==
    /\ Idle
    /\ size(self, segments) < MaxSize
    /\ \E value \in PushValues : Grow("push_back", FALSE, FALSE, 1, encodeNumber(value))
    /\ UNCHANGED <<wrsVars, idtVars, capVars, rtVars, resVars>>

growRight ==
    /\ Idle
    /\ \E amount \in Amounts : Grow("growRight", FALSE, FALSE, amount, EmptyValue)
    /\ UNCHANGED <<wrsVars, idtVars, capVars, rtVars, resVars>>

growLeft ==
    /\ Idle
    /\ \E amount \in Amounts : Grow("growLeft", TRUE, FALSE, amount, EmptyValue)
    /\ UNCHANGED <<wrsVars, idtVars, capVars, rtVars, resVars>>

growRightWithinCapacity ==
    /\ Idle
    /\ \E amount \in Amounts :
          /\ size(self, segments) + amount <= capacity(self)
          /\ Grow("growRight", FALSE, TRUE, amount, EmptyValue)
    /\ UNCHANGED <<wrsVars, idtVars, capVars, rtVars, resVars>>

growLeftWithinCapacity ==
    /\ Idle
    /\ \E amount \in Amounts :
          /\ size(self, segments) + amount <= capacity(self)
          /\ Grow("growLeft", TRUE, TRUE, amount, EmptyValue)
    /\ UNCHANGED <<wrsVars, idtVars, capVars, rtVars, resVars>>

shrinkRight ==
    /\ Idle
    /\ \E amount \in 0..size(self, segments) : Shrink("shrinkRight", FALSE, amount)
    /\ UNCHANGED <<wrsVars, idtVars, capVars, rtVars, resVars>>

shrinkLeftCall ==
    /\ Idle
    /\ \E amount \in 0..size(self, segments) : Shrink("shrinkLeft", TRUE, amount)
    /\ UNCHANGED <<wrsVars, idtVars, capVars, rtVars, resVars>>

\* resize: growRight, shrinkRight, or nothing when the size is newSize.
resize ==
    /\ Idle
    /\ \E newSize \in (0..MaxSize) \ {size(self, segments)} :
          IF newSize > size(self, segments)
            THEN Grow("growRight", FALSE, FALSE, newSize - size(self, segments), EmptyValue)
            ELSE Shrink("shrinkRight", FALSE, size(self, segments) - newSize)
    /\ UNCHANGED <<wrsVars, idtVars, capVars, rtVars, resVars>>

\* resizeLeft: growLeft, shrinkLeft, or nothing when the size is newSize.
resizeLeft ==
    /\ Idle
    /\ \E newSize \in (0..MaxSize) \ {size(self, segments)} :
          IF newSize > size(self, segments)
            THEN Grow("growLeft", TRUE, FALSE, newSize - size(self, segments), EmptyValue)
            ELSE Shrink("shrinkLeft", TRUE, size(self, segments) - newSize)
    /\ UNCHANGED <<wrsVars, idtVars, capVars, rtVars, resVars>>

\* resizeWithinCapacity: growRightWithinCapacity or shrinkRight.
resizeWithinCapacity ==
    /\ Idle
    /\ \E newSize \in (0..Min(MaxSize, capacity(self))) \ {size(self, segments)} :
          IF newSize > size(self, segments)
            THEN Grow("growRight", FALSE, TRUE, newSize - size(self, segments), EmptyValue)
            ELSE Shrink("shrinkRight", FALSE, size(self, segments) - newSize)
    /\ UNCHANGED <<wrsVars, idtVars, capVars, rtVars, resVars>>

\* One pass of the allocation loop of increaseSize: allocateSegment for the
\* next segment number, then on to the next allocation point, or, after the
\* last one, through the length loop and the rest of the call.
allocateSegmentStep ==
    /\ saOp.stage = "alloc"
    /\ saFailed = ""
    /\ UNCHANGED <<wrsVars, idtVars, capVars, rtVars, resVars, saLast>>
    /\ LET segment == Head(saOp.toAlloc)
           H == allocateSegment(Heap, saOp.target, segment)
       IN  IF ~isEmpty(Heap[saOp.target].slots[kValueToSegmentThreshold + segment])
             THEN /\ saFailed' = "Allocating into a non-empty segment"
                  /\ UNCHANGED <<self, newSegmentedArray, segments, saOp>>
             ELSE IF Tail(saOp.toAlloc) = <<>>
               THEN Return(saOp, [H EXCEPT !.segs =
                                     increaseSizeFinish(saOp.Fill, H[saOp.target], H.segs,
                                         saOp.startSegment, saOp.lastSegment,
                                         saOp.finalSize)])
               ELSE Suspend([saOp EXCEPT !.toAlloc = Tail(@), !.done = Append(@, segment)], H)

\* SegmentedArray::create(runtime, capacity) for a capacity the caller picks.
SaInit ==
    /\ \E cap \in 0..MaxSize : self = newArray(cap)
    /\ newSegmentedArray = NoArray
    /\ segments = [id \in SegIds |-> NoSegment]
    /\ saOp = IdleOp
    /\ saFailed = ""
    /\ saLast = [op |-> "create", amount |-> 0, path |-> "none", status |-> "RETURNED"]

SaParked == SaInit /\ self = newArray(0)

SaNext ==
    \/ push_back
    \/ growRight
    \/ growLeft
    \/ growRightWithinCapacity
    \/ growLeftWithinCapacity
    \/ shrinkRight
    \/ shrinkLeftCall
    \/ resize
    \/ resizeLeft
    \/ resizeWithinCapacity
    \/ allocateSegmentStep

(***************************************************************************)
(*                   SegmentedArray: capacity and growth                   *)
(*                                                                         *)
(* create, createLongLived and push_back again, on the sizes alone (no     *)
(* element values, no Segment cells), so that the capacity can run up to   *)
(* maxElements() and a long run of push_back calls can be counted.         *)
(***************************************************************************)

\* No array: create has not run, or it returned EXCEPTION.
NoSizes == [slotCapacity |-> 0, size |-> 0, allocated |-> FALSE]

\* Every value of size_type is a capacity a caller can ask for.
Capacities == 0..SizeTypeMax

\* if (capacity > maxElements()) return throwExcessiveCapacityError(...)
\* Mutant: the largest legal capacity is rejected too.
createThrows_AtMax(cap) == cap >= maxElements
\* Mutant: create accepts every capacity.
createThrows_Never(cap) == FALSE
createThrows(cap) == cap > maxElements

\* new (...) SegmentedArray(runtime, capacity): the sizes of the new cell.
createSizes(cap) ==
    [slotCapacity |-> newArray(cap).slotCapacity,
     size |-> size(newArray(cap), <<>>),
     allocated |-> TRUE]

\* growRight: create(runtime, calculateNewCapacity(self->size(), newSize)).
\* Mutant: the new array is made just large enough for the request.
growRightNewCapacity_Exact(sz, newSize) == newSize
growRightNewCapacity(sz, newSize) == calculateNewCapacity(sz, newSize)

\* growRight's GCHermesValue::copy of inlineStorage() .. + numSlotsUsed_: the
\* number of slots it copies from an array holding sz elements.
growRightSlotsCopied(sz) == numSlotsForCapacity(sz)

CapCalled(op, cap, status, path, from, to, pushes, reallocations, copied, allocations) ==
    capLast' = [op |-> op, capacity |-> cap, status |-> status, path |-> path,
                from |-> from, to |-> to, created |-> IF op = "push_back"
                                                        THEN capLast.created
                                                        ELSE capacity(createSizes(cap)),
                pushes |-> pushes, reallocations |-> reallocations,
                copied |-> copied, allocations |-> allocations]

\* SegmentedArray::create / createLongLived(runtime, capacity): the two
\* differ only in the allocator they take the cell from.
CapCreateWith(op, cap) ==
    /\ ~capSelf.allocated
    /\ capLast.status # "EXCEPTION"
    /\ UNCHANGED <<wrsVars, idtVars, saVars, rtVars, resVars>>
    /\ IF createThrows(cap)
         THEN /\ capSelf' = capSelf
              /\ CapCalled(op, cap, "EXCEPTION", "none", 0, 0, 0, 0, 0,
                           capLast.allocations)
         ELSE /\ capSelf' = createSizes(cap)
              /\ CapCalled(op, cap, "RETURNED", "none", 0, 0, 0, 0, 0,
                           capLast.allocations + 1)

CapCreate == \E cap \in Capacities : CapCreateWith("create", cap)

CapCreateLongLived == \E cap \in Capacities : CapCreateWith("createLongLived", cap)

\* push_back on the sizes: growRight(self, runtime, 1), then the store.
CapPushBack ==
    LET sz == capSelf.size
        cap == capacity(capSelf)
        newSize == Wrap(sz + 1)
        newCapacity == growRightNewCapacity(sz, newSize)
    IN  /\ capSelf.allocated
        /\ capLast.status # "EXCEPTION"
        /\ UNCHANGED <<wrsVars, idtVars, saVars, rtVars, resVars>>
        /\ IF growRightFits(sz, 1, cap)
             THEN /\ capSelf' = [capSelf EXCEPT !.size = newSize]
                  /\ CapCalled("push_back", 1, "RETURNED", "inplace", cap, cap,
                               capLast.pushes + 1, capLast.reallocations,
                               capLast.copied, capLast.allocations)
             ELSE IF createThrows(newCapacity)
               THEN /\ capSelf' = capSelf
                    /\ CapCalled("push_back", 1, "EXCEPTION", "realloc", cap, cap,
                                 capLast.pushes, capLast.reallocations,
                                 capLast.copied, capLast.allocations)
               ELSE /\ capSelf' = [createSizes(newCapacity) EXCEPT !.size = newSize]
                    /\ CapCalled("push_back", 1, "RETURNED", "realloc", cap,
                                 capacity(createSizes(newCapacity)),
                                 capLast.pushes + 1, capLast.reallocations + 1,
                                 capLast.copied + growRightSlotsCopied(sz),
                                 capLast.allocations + 1)

CapInit ==
    /\ capSelf = NoSizes
    /\ capLast = [op |-> "none", capacity |-> 0, status |-> "RETURNED", path |-> "none",
                  from |-> 0, to |-> 0, created |-> 0, pushes |-> 0,
                  reallocations |-> 0, copied |-> 0, allocations |-> 0]

CapNext ==
    \/ CapCreate
    \/ CapCreateLongLived
    \/ CapPushBack

(***************************************************************************)
(*              Root marking and the collection of a weak slot             *)
(*                                                                         *)
(* Runtime::markRoots and Runtime::markWeakRoots (lib/VM/Runtime.cpp) are  *)
(* stepped through call by call on the acceptor.  The collector that       *)
(* drives them, its acceptor and the mutator around the slot are not part  *)
(* of the sources at hand; they follow the collector contract: strong      *)
(* marking first, then the weak roots, then every slot is updated -        *)
(* unmarked if a live weak reference marked it, its pointer cleared if the *)
(* referent died, freed if nothing marked it.                              *)
(***************************************************************************)

\* The most roots one block of markRoots finds and presents.
MaxAccepts == 1

\* Runtime::initCharacterStrings: charStrings_ holds one string for each
\* ch < 256.
kNumCharStrings == 256

\* Runtime::markRoots: one block per root section, in program order.  The
\* accept calls of a block are made for every collection, or only when
\* markLongLived is set.
\* Mutant: the Builtins block stands after the Prototypes block.
markRootsBlocks_Swapped ==
    << [section |-> "Registers", ifLongLived |-> FALSE],
       [section |-> "RuntimeInstanceVars", ifLongLived |-> FALSE],
       [section |-> "RuntimeModules", ifLongLived |-> FALSE],
       [section |-> "CharStrings", ifLongLived |-> TRUE],
       [section |-> "Prototypes", ifLongLived |-> FALSE],
       [section |-> "Builtins", ifLongLived |-> FALSE],
       [section |-> "IdentifierTable", ifLongLived |-> TRUE],
       [section |-> "GCScopes", ifLongLived |-> FALSE],
       [section |-> "SymbolRegistry", ifLongLived |-> FALSE],
       [section |-> "SamplingProfiler", ifLongLived |-> FALSE],
       [section |-> "Custom", ifLongLived |-> FALSE] >>
\* Mutant: the character strings are presented at every collection.
markRootsBlocks_CharStringsAlways ==
    << [section |-> "Registers", ifLongLived |-> FALSE],
       [section |-> "RuntimeInstanceVars", ifLongLived |-> FALSE],
       [section |-> "RuntimeModules", ifLongLived |-> FALSE],
       [section |-> "CharStrings", ifLongLived |-> FALSE],
       [section |-> "Builtins", ifLongLived |-> FALSE],
       [section |-> "Prototypes", ifLongLived |-> FALSE],
       [section |-> "IdentifierTable", ifLongLived |-> TRUE],
       [section |-> "GCScopes", ifLongLived |-> FALSE],
       [section |-> "SymbolRegistry", ifLongLived |-> FALSE],
       [section |-> "SamplingProfiler", ifLongLived |-> FALSE],
       [section |-> "Custom", ifLongLived |-> FALSE] >>
markRootsBlocks ==
    << [section |-> "Registers", ifLongLived |-> FALSE],
       [section |-> "RuntimeInstanceVars", ifLongLived |-> FALSE],
       [section |-> "RuntimeModules", ifLongLived |-> FALSE],
       [section |-> "CharStrings", ifLongLived |-> TRUE],
       [section |-> "Builtins", ifLongLived |-> FALSE],
       [section |-> "Prototypes", ifLongLived |-> FALSE],
       [section |-> "IdentifierTable", ifLongLived |-> TRUE],
       [section |-> "GCScopes", ifLongLived |-> FALSE],
       [section |-> "SymbolRegistry", ifLongLived |-> FALSE],
       [section |-> "SamplingProfiler", ifLongLived |-> FALSE],
       [section |-> "Custom", ifLongLived |-> FALSE] >>

\* Runtime::markWeakRoots opens one section.
\* Mutant: the weak roots are presented as custom (strong) roots.
markWeakRootsSection_Custom == "Custom"
markWeakRootsSection == "WeakRefs"

\* The acceptor of one collection, as the collector keeps it.
NewAcceptor ==
    [open |-> "", begun |-> <<>>, misuse |-> FALSE,
     last |-> [call |-> "none", kind |-> "", section |-> ""]]

beginRootSection(acc, section) ==
    [acc EXCEPT !.open = section,
                !.begun = Append(@, section),
                !.misuse = @ \/ acc.open # "",
                !.last = [call |-> "beginRootSection", kind |-> "", section |-> section]]

endRootSection(acc) ==
    [acc EXCEPT !.open = "",
                !.misuse = @ \/ acc.open = "",
                !.last = [call |-> "endRootSection", kind |-> "", section |-> acc.open]]

\* accept(root) and its overloads; kind tells a strong root from a weak one.
accept(acc, kind) ==
    [acc EXCEPT !.misuse = @ \/ acc.open = "",
                !.last = [call |-> "accept", kind |-> kind, section |-> acc.open]]

\* WeakRefBase::isValid / isSlotValid on the slot's word.
isValid(t) == hasValue(t)
isSlotValid(t) == hasValue(t)

NotMarking ==
    [fn |-> "none", block |-> 0, inSection |-> FALSE, accepted |-> 0,
     markLongLived |-> FALSE, identifiers |-> FALSE, done |-> <<>>]

\* The default (GCBase) implementations of the external-memory and
\* write-barrier calls: empty bodies.
\* Mutant: the credit is taken for a reason to collect.
creditExternalMemory_EntersGC(g, alloc, sz) == [g EXCEPT !.inGC = sz > 0]
creditExternalMemory(g, alloc, sz) == g
debitExternalMemory(g, alloc, sz) == g
writeBarrierValue(g, loc, v) == g
writeBarrierPointer(g, loc, ptr) == g
writeBarrierRange(g, start, numHVs) == g
writeBarrierRangeFill(g, start, numHVs, v) == g

\* Arguments of the calls above.
HookSizes == 0..1

GcRecord(op) ==
    gcLast' = [op |-> op, word |-> tagged_,
               referentStrong |-> weakRef.referentStrong,
               holderLive |-> weakRef.holderLive]

Mutator == gc.phase = "idle" /\ wrsFailed = ""

\* A call from the mutator that is answered by GCBase itself.
GcHook(op, g) ==
    /\ Mutator
    /\ gc' = g
    /\ GcRecord(op)
    /\ UNCHANGED <<wrsVars, idtVars, saVars, capVars, resVars, weakRef, acceptor, rtPc>>

GcCreditExternalMemory ==
    \E alloc \in ObjPtrs, sz \in HookSizes :
        GcHook("creditExternalMemory", creditExternalMemory(gc, alloc, sz))

GcDebitExternalMemory ==
    \E alloc \in ObjPtrs, sz \in HookSizes :
        GcHook("debitExternalMemory", debitExternalMemory(gc, alloc, sz))

GcWriteBarrierValue ==
    \E loc \in ObjPtrs, obj \in ObjPtrs :
        GcHook("writeBarrier(HermesValue)",
               writeBarrierValue(gc, loc, encodeObjectValue(obj)))

GcWriteBarrierPointer ==
    \E loc \in ObjPtrs, ptr \in ObjPtrs :
        GcHook("writeBarrier(void *)", writeBarrierPointer(gc, loc, ptr))

GcWriteBarrierRange ==
    \E start \in ObjPtrs, numHVs \in HookSizes :
        GcHook("writeBarrierRange", writeBarrierRange(gc, start, numHVs))

GcWriteBarrierRangeFill ==
    \E start \in ObjPtrs, numHVs \in HookSizes :
        GcHook("writeBarrierRangeFill",
               writeBarrierRangeFill(gc, start, numHVs, EmptyValue))

\* The mutator drops its last strong reference to the referent.
MutDropReferent ==
    /\ Mutator
    /\ weakRef.referentStrong
    /\ weakRef' = [weakRef EXCEPT !.referentStrong = FALSE]
    /\ GcRecord("dropReferent")
    /\ UNCHANGED <<wrsVars, idtVars, saVars, capVars, resVars, gc, acceptor, rtPc>>

\* The mutator drops the weak reference that owns the slot.
MutDropWeakRef ==
    /\ Mutator
    /\ weakRef.holderLive
    /\ weakRef' = [weakRef EXCEPT !.holderLive = FALSE]
    /\ GcRecord("dropWeakRef")
    /\ UNCHANGED <<wrsVars, idtVars, saVars, capVars, resVars, gc, acceptor, rtPc>>

\* The mutator creates a weak reference to a live object; the slot comes
\* from the free list and is re-initialized with reset(v).
MutNewWeakRef ==
    \E obj \in ObjPtrs :
        LET v == encodeObjectValue(obj)
        IN  /\ Mutator
            /\ state(tagged_) = Free
            /\ SlotCall("reset", v,
                        isObject(v) /\ state(resetWord(tagged_, v)) = Unmarked,
                        resetWord(tagged_, v), "initial state should be unmarked")
            /\ weakRef' = [referentStrong |-> TRUE, holderLive |-> TRUE]
            /\ GcRecord("newWeakRef")
            /\ UNCHANGED <<idtVars, saVars, capVars, resVars, gc, acceptor, rtPc>>

\* A collection begins: the mutator is stopped, the collector sets up its
\* acceptor.
GcStart ==
    /\ Mutator
    /\ gc' = [gc EXCEPT !.phase = "start", !.inGC = TRUE]
    /\ acceptor' = NewAcceptor
    /\ GcRecord("collect")
    /\ UNCHANGED <<wrsVars, idtVars, saVars, capVars, resVars, weakRef, rtPc>>

\* GCBase::markRoots(acceptor, markLongLived): into the runtime's callback.
GcMarkRoots ==
    \E markLongLived \in BOOLEAN :
        /\ gc.phase = "start"
        /\ gc' = [gc EXCEPT !.phase = "markRoots"]
        /\ rtPc' = [NotMarking EXCEPT !.fn = "markRoots", !.block = 1,
                                      !.markLongLived = markLongLived]
        /\ UNCHANGED <<wrsVars, idtVars, saVars, capVars, resVars, weakRef, acceptor, gcLast>>

\* One block of Runtime::markRoots: beginRootSection, ...
RtBeginRootSection ==
    /\ rtPc.fn = "markRoots"
    /\ ~rtPc.inSection
    /\ acceptor' = beginRootSection(acceptor, markRootsBlocks[rtPc.block].section)
    /\ rtPc' = [rtPc EXCEPT !.inSection = TRUE, !.accepted = 0]
    /\ UNCHANGED <<wrsVars, idtVars, saVars, capVars, resVars, gc, weakRef, gcLast>>

\* The accept calls the block makes itself: one for each character string
\* in the CharStrings block if markLongLived, none in the IdentifierTable
\* block (markIdentifiers makes them), and any number the bound allows for
\* the roots of the other blocks.
blockAccepts(block, markLongLived) ==
    IF block.section = "CharStrings"
      THEN IF block.ifLongLived => markLongLived THEN {kNumCharStrings} ELSE {0}
    ELSE IF block.section = "IdentifierTable" THEN {0}
    ELSE 0..MaxAccepts

\* ... an accept call for each root the block finds, ...
RtAccept ==
    /\ rtPc.fn = "markRoots"
    /\ rtPc.inSection
    /\ \E n \in blockAccepts(markRootsBlocks[rtPc.block], rtPc.markLongLived) :
          rtPc.accepted < n
    /\ acceptor' = accept(acceptor, "root")
    /\ rtPc' = [rtPc EXCEPT !.accepted = @ + 1]
    /\ UNCHANGED <<wrsVars, idtVars, saVars, capVars, resVars, gc, weakRef, gcLast>>

\* ... identifierTable_.markIdentifiers(acceptor, &getHeap()) in the
\* IdentifierTable block if markLongLived: the table presents its
\* identifiers, ...
RtMarkIdentifiers ==
    \E found \in BOOLEAN :
        /\ rtPc.fn = "markRoots"
        /\ rtPc.inSection
        /\ markRootsBlocks[rtPc.block].section = "IdentifierTable"
        /\ markRootsBlocks[rtPc.block].ifLongLived => rtPc.markLongLived
        /\ ~rtPc.identifiers
        /\ acceptor' = IF found THEN accept(acceptor, "root") ELSE acceptor
        /\ rtPc' = [rtPc EXCEPT !.identifiers = TRUE]
        /\ UNCHANGED <<wrsVars, idtVars, saVars, capVars, resVars, gc, weakRef, gcLast>>

\* ... endRootSection; after the last block markRoots returns.
RtEndRootSection ==
    /\ rtPc.fn = "markRoots"
    /\ rtPc.inSection
    /\ rtPc.accepted \in blockAccepts(markRootsBlocks[rtPc.block], rtPc.markLongLived)
    /\ ( /\ markRootsBlocks[rtPc.block].section = "IdentifierTable"
         /\ markRootsBlocks[rtPc.block].ifLongLived => rtPc.markLongLived )
          => rtPc.identifiers
    /\ acceptor' = endRootSection(acceptor)
    /\ rtPc' = IF rtPc.block = Len(markRootsBlocks)
                 THEN NotMarking
                 ELSE [rtPc EXCEPT !.block = @ + 1, !.inSection = FALSE, !.accepted = 0]
    /\ UNCHANGED <<wrsVars, idtVars, saVars, capVars, resVars, gc, weakRef, gcLast>>

\* The collector has marked everything reachable from the roots.
GcFinishMarking ==
    /\ gc.phase = "markRoots"
    /\ rtPc.fn = "none"
    /\ gc' = [gc EXCEPT !.phase = "marked"]
    /\ UNCHANGED <<wrsVars, idtVars, saVars, capVars, resVars, weakRef, acceptor, rtPc, gcLast>>

\* GCBase::markWeakRoots(acceptor): into the runtime's callback.
GcMarkWeakRoots ==
    /\ gc.phase = "marked"
    /\ gc' = [gc EXCEPT !.phase = "markWeakRoots"]
    /\ rtPc' = [NotMarking EXCEPT !.fn = "markWeakRoots"]
    /\ UNCHANGED <<wrsVars, idtVars, saVars, capVars, resVars, weakRef, acceptor, gcLast>>

\* Runtime::markWeakRoots: beginRootSection(WeakRefs), ...
RtWeakBegin ==
    /\ rtPc.fn = "markWeakRoots"
    /\ rtPc.block = 0
    /\ acceptor' = beginRootSection(acceptor, markWeakRootsSection)
    /\ rtPc' = [rtPc EXCEPT !.block = 1, !.inSection = TRUE]
    /\ UNCHANGED <<wrsVars, idtVars, saVars, capVars, resVars, gc, weakRef, gcLast>>

\* ... rm.markWeakRoots(acceptor) for each runtime module, ...
RtWeakRuntimeModules ==
    \E found \in BOOLEAN :
        /\ rtPc.fn = "markWeakRoots"
        /\ rtPc.block = 1
        /\ acceptor' = IF found THEN accept(acceptor, "weak") ELSE acceptor
        /\ rtPc' = [rtPc EXCEPT !.block = 2, !.done = Append(@, "runtimeModules")]
        /\ UNCHANGED <<wrsVars, idtVars, saVars, capVars, resVars, gc, weakRef, gcLast>>

\* ... markWeakRefs(acceptor): every weak reference that is still alive is
\* presented, and the collector marks its slot, ...
RtMarkWeakRefs ==
    /\ rtPc.fn = "markWeakRoots"
    /\ rtPc.block = 2
    /\ rtPc' = [rtPc EXCEPT !.block = 3, !.done = Append(@, "weakRefs")]
    /\ IF weakRef.holderLive /\ state(tagged_) # Free
         THEN /\ acceptor' = accept(acceptor, "weak")
              /\ SlotCall("mark", 0, markPre(tagged_), markWord(tagged_), "already marked")
         ELSE UNCHANGED <<acceptor, wrsVars>>
    /\ UNCHANGED <<idtVars, saVars, capVars, resVars, gc, weakRef, gcLast>>

\* ... the custom weak-root functions, ...
RtWeakCustom ==
    \E found \in BOOLEAN :
        /\ rtPc.fn = "markWeakRoots"
        /\ rtPc.block = 3
        /\ acceptor' = IF found THEN accept(acceptor, "weak") ELSE acceptor
        /\ rtPc' = [rtPc EXCEPT !.block = 4, !.done = Append(@, "custom")]
        /\ UNCHANGED <<wrsVars, idtVars, saVars, capVars, resVars, gc, weakRef, gcLast>>

\* ... endRootSection, and markWeakRoots returns.
RtWeakEnd ==
    /\ rtPc.fn = "markWeakRoots"
    /\ rtPc.block = 4
    /\ acceptor' = endRootSection(acceptor)
    /\ rtPc' = NotMarking
    /\ UNCHANGED <<wrsVars, idtVars, saVars, capVars, resVars, gc, weakRef, gcLast>>

\* The collector updates the slot after weak marking: a marked slot is
\* unmarked (and has its pointer cleared next, if the referent died), an
\* unmarked slot goes onto the free list, a free slot is left alone.
GcUpdateWeakRef ==
    /\ gc.phase = "markWeakRoots"
    /\ rtPc.fn = "none"
    /\ UNCHANGED <<idtVars, saVars, capVars, resVars, weakRef, acceptor, rtPc, gcLast>>
    /\ CASE state(tagged_) = Marked ->
              /\ SlotCall("unmark", 0, unmarkPre(tagged_), unmarkWord(tagged_),
                          "not yet marked")
              /\ gc' = [gc EXCEPT !.phase =
                           IF hasPointer(tagged_) /\ ~weakRef.referentStrong
                             THEN "clear" ELSE "updated"]
         [] state(tagged_) = Unmarked ->
              /\ \E next \in SlotPtrs :
                    SlotCall("free", next, freePre(tagged_), freeWord(tagged_, next),
                             "cannot free a reachable slot")
              /\ gc' = [gc EXCEPT !.phase = "updated"]
         [] OTHER ->
              /\ UNCHANGED wrsVars
              /\ gc' = [gc EXCEPT !.phase = "updated"]

\* The referent was not marked: the collector clears the slot's pointer.
GcClearPointer ==
    /\ gc.phase = "clear"
    /\ SlotCall("clearPointer", 0, TRUE, clearPointerWord(tagged_), "")
    /\ gc' = [gc EXCEPT !.phase = "updated"]
    /\ UNCHANGED <<idtVars, saVars, capVars, resVars, weakRef, acceptor, rtPc, gcLast>>

\* The collection ends; what was not strongly reachable is gone.
GcEnd ==
    /\ gc.phase = "updated"
    /\ wrsFailed = ""
    /\ gc' = [gc EXCEPT !.phase = "idle", !.inGC = FALSE]
    /\ weakRef' = [weakRef EXCEPT !.holderLive = @ /\ state(tagged_) # Free]
    /\ UNCHANGED <<wrsVars, idtVars, saVars, capVars, resVars, acceptor, rtPc, gcLast>>

RtInit ==
    /\ gc = [inGC |-> FALSE, phase |-> "idle"]
    /\ weakRef = [referentStrong |-> TRUE, holderLive |-> TRUE]
    /\ acceptor = NewAcceptor
    /\ rtPc = NotMarking
    /\ gcLast = [op |-> "none", word |-> 0,
                 referentStrong |-> TRUE, holderLive |-> TRUE]

RtNext ==
    \/ GcCreditExternalMemory
    \/ GcDebitExternalMemory
    \/ GcWriteBarrierValue
    \/ GcWriteBarrierPointer
    \/ GcWriteBarrierRange
    \/ GcWriteBarrierRangeFill
    \/ MutDropReferent
    \/ MutDropWeakRef
    \/ MutNewWeakRef
    \/ GcStart
    \/ GcMarkRoots
    \/ RtBeginRootSection
    \/ RtAccept
    \/ RtMarkIdentifiers
    \/ RtEndRootSection
    \/ GcFinishMarking
    \/ GcMarkWeakRoots
    \/ RtWeakBegin
    \/ RtWeakRuntimeModules
    \/ RtMarkWeakRefs
    \/ RtWeakCustom
    \/ RtWeakEnd
    \/ GcUpdateWeakRef
    \/ GcClearPointer
    \/ GcEnd

(***************************************************************************)
(*                      IDTracker: the reserved IDs                        *)
(*                                                                         *)
(* FirstNonReservedID is one more than the last root section's ID, so its  *)
(* value and its parity follow the list of root sections the build has.    *)
(* Here the tracker is constructed for every such value and its two        *)
(* counters are stepped as nextObjectID / nextNativeID step them.          *)
(***************************************************************************)

\* The largest FirstNonReservedID tried.
MaxFirstNonReservedID == 15

\* NoID, Root and at least one root section come before FirstNonReservedID.
FirstIDs == 3..MaxFirstNonReservedID

\* The default member initializers of nextID_ and nextNativeID_.
\* Mutant: the counter starts at zero, as a default-initialized integer.
initialNextID_FromNoID(first) == NoID
initialNextID(first) == first + (first % 2)
initialNextNativeID(nextID) == nextID + 1

ResRecord(op, ret) == [idStart EXCEPT !.op = op, !.ret = ret]

\* getObjectID for an address that is not tracked: nextObjectID().
ResNextObjectID ==
    /\ idStart.failed = ""
    /\ idStart' =
          IF nextObjectIDFatal(idStart.nextID)
            THEN [ResRecord("nextObjectID", NoID) EXCEPT !.failed = "Ran out of object IDs"]
            ELSE [ResRecord("nextObjectID", nextObjectIDValue(idStart.nextID))
                     EXCEPT !.nextID = nextObjectIDValue(idStart.nextID)]
    /\ UNCHANGED <<wrsVars, idtVars, saVars, capVars, rtVars>>

\* getNativeID for an address that is not tracked: nextNativeID().
ResNextNativeID ==
    /\ idStart.failed = ""
    /\ idStart' =
          IF nextNativeIDFatal(idStart.nextNativeID)
            THEN [ResRecord("nextNativeID", NoID) EXCEPT !.failed = "Ran out of native IDs"]
            ELSE [ResRecord("nextNativeID", nextNativeIDValue(idStart.nextNativeID))
                     EXCEPT !.nextNativeID = nextNativeIDValue(idStart.nextNativeID)]
    /\ UNCHANGED <<wrsVars, idtVars, saVars, capVars, rtVars>>

ResStart(first) ==
    [first |-> first,
     nextID |-> initialNextID(first),
     nextNativeID |-> initialNextNativeID(initialNextID(first)),
     failed |-> "", op |-> "construct", ret |-> NoID]

ResInit == \E first \in FirstIDs : idStart = ResStart(first)

\* The tracker of the build at hand.
ResParked == idStart = ResStart(FirstNonReservedID)

ResNext ==
    \/ ResNextObjectID
    \/ ResNextNativeID

(***************************************************************************)
(*             SegmentedArray: requests beyond maxElements()               *)
(*                                                                         *)
(* growRight, growLeft, resize and resizeLeft again, called with amounts   *)
(* that take size() + amount above maxElements(): amount is a size_type,   *)
(* the sum a caller means is the true one, the sum the code computes is    *)
(* the sum in size_type.  An array of maxElements() elements is out of     *)
(* reach of the element model, so push_back on a full array is the         *)
(* push_back of the sizes; the handle is followed through one of the two   *)
(* models at a time.                                                       *)
(***************************************************************************)

\* The amounts whose true sum with sz is above maxElements().
Excessive(sz) == {amount \in 0..SizeTypeMax : sz + amount > maxElements}

\* increaseSize fills inlineStorage() + from .. inlineStorage() + to twice
\* (the inline values, then the added slots).  The fill is defined for
\* from <= to; with a sum that wrapped, finalSize is below currSize and the
\* ranges are in order only when both sizes end in the same segment.
increaseSizeFillsInOrder(cell, segs, amount) ==
    LET currSize == size(cell, segs)
        finalSize == Wrap(currSize + amount)
    IN  \/ currSize <= finalSize
        \/ /\ finalSize > kValueToSegmentThreshold
           /\ numSlotsForCapacity(finalSize) = cell.numSlotsUsed

\* The handle is followed through the element model / through the sizes.
OnElements == self.slotCapacity > 0
OnSizes == self.slotCapacity = 0

ExcPushBack == OnElements /\ push_back

ExcGrowLeftSmall == OnElements /\ growLeft

ExcAllocateSegmentStep == OnElements /\ allocateSegmentStep

\* growRight(self, runtime, amount), amount excessive.
ExcGrowRight ==
    /\ OnElements
    /\ Idle
    /\ \E amount \in Excessive(size(self, segments)) :
          /\ increaseSizeFillsInOrder(self, segments, amount)
          /\ Grow("growRight", FALSE, FALSE, amount, EmptyValue)
    /\ UNCHANGED <<wrsVars, idtVars, capVars, rtVars, resVars>>

\* growLeft(self, runtime, amount), amount excessive and the sum inside
\* size_type: after a sum that wrapped, growLeftWithinCapacity goes on to
\* copy_backward up to end() - amount, before begin().
ExcGrowLeft ==
    /\ OnElements
    /\ Idle
    /\ \E amount \in Excessive(size(self, segments)) :
          /\ size(self, segments) + amount <= SizeTypeMax
          /\ Grow("growLeft", TRUE, FALSE, amount, EmptyValue)
    /\ UNCHANGED <<wrsVars, idtVars, capVars, rtVars, resVars>>

\* resize(self, runtime, newSize), newSize above maxElements().
ExcResize ==
    /\ OnElements
    /\ Idle
    /\ \E newSize \in (maxElements + 1)..SizeTypeMax :
          Grow("resize", FALSE, FALSE, newSize - size(self, segments), EmptyValue)
    /\ UNCHANGED <<wrsVars, idtVars, capVars, rtVars, resVars>>

\* resizeLeft(self, runtime, newSize), newSize above maxElements().
ExcResizeLeft ==
    /\ OnElements
    /\ Idle
    /\ \E newSize \in (maxElements + 1)..SizeTypeMax :
          Grow("resizeLeft", TRUE, FALSE, newSize - size(self, segments), EmptyValue)
    /\ UNCHANGED <<wrsVars, idtVars, capVars, rtVars, resVars>>

\* create(runtime, maxElements()) and push_back on the sizes.
ExcCreate == OnSizes /\ CapCreateWith("create", maxElements)

ExcPushBackSizes == OnSizes /\ CapPushBack

ExcNext ==
    \/ ExcPushBack
    \/ ExcGrowLeftSmall
    \/ ExcAllocateSegmentStep
    \/ ExcGrowRight
    \/ ExcGrowLeft
    \/ ExcResize
    \/ ExcResizeLeft
    \/ ExcCreate
    \/ ExcPushBackSizes

(***************************************************************************)
(*                      SegmentedArray: trimming                           *)
(*                                                                         *)
(* _trimSizeCallback and _trimCallback are defined but not registered in   *)
(* SegmentedArray::vt.  Here they are registered: a compacting collection, *)
(* at an allocation inside increaseSize or between two calls, trims every  *)
(* live array.                                                             *)
(***************************************************************************)

\* _trimSizeCallback then _trimCallback: the cell keeps the storage of
\* numSlotsUsed_ slots, and slotCapacity_ becomes numSlotsUsed_.
trimCallback(cell) ==
    [cell EXCEPT !.slotCapacity = cell.numSlotsUsed,
                 !.slots = [i \in 0..(cell.numSlotsUsed - 1) |-> cell.slots[i]]]

\* A collection that trims: the handle's array, and the new array of a
\* reallocation in progress.
SaTrim ==
    /\ saFailed = ""
    /\ self' = trimCallback(self)
    /\ newSegmentedArray' = IF saOp.stage = "alloc" /\ saOp.target = "new"
                              THEN trimCallback(newSegmentedArray)
                              ELSE newSegmentedArray
    /\ <<self', newSegmentedArray'>> # <<self, newSegmentedArray>>
    /\ UNCHANGED <<segments, saOp, saFailed, saLast>>
    /\ UNCHANGED <<wrsVars, idtVars, capVars, rtVars, resVars>>

TrimNext ==
    \/ push_back
    \/ growRight
    \/ growLeft
    \/ shrinkRight
    \/ allocateSegmentStep
    \/ SaTrim

(***************************************************************************)
(*                            Specifications                               *)
(***************************************************************************)

\* A component that a specification does not exercise sits in one fixed
\* freshly constructed state.
WrsParked == WrsInit /\ tagged_ = kStateMask + 1 /\ wrsLast.pre = 0

InitWeakRefSlot == WrsInit /\ IdtInit /\ SaParked /\ CapInit /\ RtInit /\ ResParked

InitIDTracker == WrsParked /\ IdtInit /\ SaParked /\ CapInit /\ RtInit /\ ResParked

InitSegmentedArray == WrsParked /\ IdtInit /\ SaInit /\ CapInit /\ RtInit /\ ResParked

InitCapacity == WrsParked /\ IdtInit /\ SaParked /\ CapInit /\ RtInit /\ ResParked

InitCollection == WrsParked /\ IdtInit /\ SaParked /\ CapInit /\ RtInit /\ ResParked

SpecWeakRefSlot == InitWeakRefSlot /\ [][WrsNext]_vars

SpecIDTracker == InitIDTracker /\ [][IdtNext]_vars

SpecSegmentedArray == InitSegmentedArray /\ [][SaNext]_vars

SpecCapacity == InitCapacity /\ [][CapNext]_vars

SpecCollection == InitCollection /\ [][RtNext]_vars

InitReservedIDs == WrsParked /\ IdtInit /\ SaParked /\ CapInit /\ RtInit /\ ResInit

SpecReservedIDs == InitReservedIDs /\ [][ResNext]_vars

InitExcessive == WrsParked /\ IdtInit /\ SaInit /\ CapInit /\ RtInit /\ ResParked

SpecExcessive == InitExcessive /\ [][ExcNext]_vars

InitTrim == WrsParked /\ IdtInit /\ SaInit /\ CapInit /\ RtInit /\ ResParked

SpecTrim == InitTrim /\ [][TrimNext]_vars

(***************************************************************************)
(*             Claims: SegmentedArray capacity and growth                  *)
(***************************************************************************)

\* C22: create and createLongLived return EXCEPTION and allocate no array
\* when the requested capacity is above maxElements(), and for every
\* capacity up to maxElements() they return an array of size 0 that can
\* hold at least that many elements.
C22_CreateRangeError ==
    capLast.op \in {"create", "createLongLived"} =>
        IF capLast.capacity > maxElements
          THEN /\ capLast.status = "EXCEPTION"
               /\ ~capSelf.allocated
               /\ capLast.allocations = 0
          ELSE /\ capLast.status = "RETURNED"
               /\ capSelf.allocated
               /\ capLast.allocations = 1
               /\ capSelf.size = 0
               /\ capacity(capSelf) >= capLast.capacity
               /\ capacity(capSelf) <= maxElements

\* createLongLived was asked for one element more than the maximum.
C22_Witness ==
    /\ capLast.op = "createLongLived"
    /\ capLast.capacity = maxElements + 1
    /\ capLast.status = "EXCEPTION"
    /\ ~capSelf.allocated

RECURSIVE Pow2(_)
Pow2(n) == IF n <= 0 THEN 1 ELSE 2 * Pow2(n - 1)

WrsStates == {Unmarked, Marked, Free}

\* The last call met its preconditions: no assertion failed, and reset() was
\* used as documented ("Re-initialize a freed slot"), on a slot in state Free.
WrsLastCallLegal ==
    /\ wrsFailed = ""
    /\ wrsLast.op # "construct"
    /\ wrsLast.op = "reset" => state(wrsLast.pre) = Free

\* C1: after any sequence of calls that satisfy their preconditions state()
\* is one of Unmarked, Marked, Free, and a call changes the state only as
\* Unmarked->Marked (mark), Marked->Unmarked (unmark), Unmarked->Free (free)
\* or Free->Unmarked (reset); Marked->Free and Free->Marked never occur.
C1_StateTransitions ==
    LET s0 == state(wrsLast.pre)
        s1 == state(tagged_)
        op == wrsLast.op
    IN  /\ s1 \in WrsStates
        /\ WrsLastCallLegal /\ s0 # s1 =>
              \/ s0 = Unmarked /\ s1 = Marked /\ op = "mark"
              \/ s0 = Marked /\ s1 = Unmarked /\ op = "unmark"
              \/ s0 = Unmarked /\ s1 = Free /\ op = "free"
              \/ s0 = Free /\ s1 = Unmarked /\ op = "reset"

\* A freed slot (linked to a non-null next slot) was reset for a new referent.
C1_Witness ==
    /\ WrsLastCallLegal
    /\ wrsLast.op = "reset"
    /\ state(wrsLast.pre) = Free
    /\ nextFree(wrsLast.pre) # 0
    /\ state(tagged_) = Unmarked

\* C15: after reset(v) with v an object value, in the constructor, on a
\* freshly constructed slot or on a slot in state Free, no assertion has
\* failed, state() is Unmarked, hasValue() is true, and value() is permitted
\* and equals v.
C15_ResetHoldsValue ==
    LET op == wrsLast.op
        fresh == op = "construct" \/ (op = "reset" /\ wrsLast.prevOp = "construct")
        freed == op = "reset" /\ state(wrsLast.pre) = Free
    IN  (fresh \/ freed) /\ isObject(wrsLast.arg) =>
            /\ wrsFailed = ""
            /\ state(tagged_) = Unmarked
            /\ hasValue(tagged_)
            /\ valuePre(tagged_)
            /\ slotValue(tagged_) = wrsLast.arg

\* A slot freed onto a non-empty free list was reset for a new referent.
C15_Witness ==
    /\ wrsLast.op = "reset"
    /\ wrsLast.prevOp = "free"
    /\ state(wrsLast.pre) = Free
    /\ nextFree(wrsLast.pre) # 0
    /\ wrsFailed = ""
    /\ slotValue(tagged_) = wrsLast.arg

\* C16: an unmark() that directly follows a mark() of an Unmarked slot
\* succeeds and restores the word the slot held before the mark() (hence the
\* same state, getPointer(), hasValue() and value()), with a referent and
\* with a cleared pointer; and every mark() and every unmark() leaves
\* getPointer() as it was.
C16_MarkUnmarkRoundTrip ==
    LET op == wrsLast.op
    IN  /\ op = "unmark" /\ wrsLast.prevOp = "mark" =>
              /\ state(wrsLast.prevPre) = Unmarked
              /\ wrsFailed = ""
              /\ tagged_ = wrsLast.prevPre
              /\ state(tagged_) = state(wrsLast.prevPre)
              /\ getPointer(tagged_) = getPointer(wrsLast.prevPre)
              /\ hasValue(tagged_) = hasValue(wrsLast.prevPre)
              /\ slotValue(tagged_) = slotValue(wrsLast.prevPre)
        /\ op \in {"mark", "unmark"} =>
              getPointer(tagged_) = getPointer(wrsLast.pre)

\* A slot whose pointer was cleared went through mark() and unmark().
C16_Witness ==
    /\ wrsLast.op = "unmark"
    /\ wrsLast.prevOp = "mark"
    /\ wrsFailed = ""
    /\ ~hasPointer(wrsLast.prevPre)
    /\ tagged_ = wrsLast.prevPre

\* C17: mark() called in a state other than Unmarked, unmark() in a state
\* other than Marked, free() in a state other than Unmarked and nextFree() in
\* a state other than Free each reach a failing assertion and leave the stored
\* word as it was; called in the permitted state none of them fails.
C17_PreconditionsAsserted ==
    LET op == wrsLast.op
        s0 == state(wrsLast.pre)
        required == CASE op = "mark" -> Unmarked
                      [] op = "unmark" -> Marked
                      [] op = "free" -> Unmarked
                      [] op = "nextFree" -> Free
    IN  op \in {"mark", "unmark", "free", "nextFree"} =>
            IF s0 = required
              THEN wrsFailed = ""
              ELSE wrsFailed # "" /\ tagged_ = wrsLast.pre

\* mark() was called twice with no unmark() between: the second call failed.
C17_Witness ==
    /\ wrsLast.op = "mark"
    /\ wrsLast.prevOp = "mark"
    /\ wrsFailed = "already marked"
    /\ state(tagged_) = Marked

\* C18: after clearPointer() on a slot in state Unmarked or Marked,
\* hasPointer() and hasValue() are false and state() is what it was before.
C18_ClearPointer ==
    wrsLast.op = "clearPointer" /\ state(wrsLast.pre) \in {Unmarked, Marked} =>
        /\ wrsFailed = ""
        /\ ~hasPointer(tagged_)
        /\ ~hasValue(tagged_)
        /\ state(tagged_) = state(wrsLast.pre)

\* The pointer of a Marked slot that held a referent was cleared.
C18_Witness ==
    /\ wrsLast.op = "clearPointer"
    /\ state(wrsLast.pre) = Marked
    /\ hasPointer(wrsLast.pre)
    /\ tagged_ = Marked

\* C19: setPointer(p) on a slot in state Unmarked or Marked, p 4-byte aligned,
\* fails no assertion, leaves state() unchanged and makes getPointer() = p.
C19_SetPointer ==
    wrsLast.op = "setPointer" /\ state(wrsLast.pre) \in {Unmarked, Marked} =>
        /\ wrsFailed = ""
        /\ state(wrsLast.arg) = 0
        /\ state(tagged_) = state(wrsLast.pre)
        /\ getPointer(tagged_) = wrsLast.arg

\* A Marked slot was repointed from one referent to another address.
C19_Witness ==
    /\ wrsLast.op = "setPointer"
    /\ state(wrsLast.pre) = Marked
    /\ hasPointer(wrsLast.pre)
    /\ getPointer(wrsLast.pre) # wrsLast.arg
    /\ getPointer(tagged_) = wrsLast.arg

\* C20: after free(next) on an Unmarked slot, with next null or not, no
\* assertion has failed, state() is Free and nextFree() is permitted and
\* returns next; a nextFree() that follows reads the link and leaves it.
C20_FreeLinksSlot ==
    LET op == wrsLast.op
    IN  /\ op = "free" /\ state(wrsLast.pre) = Unmarked =>
              /\ wrsFailed = ""
              /\ state(tagged_) = Free
              /\ tagged_ - Free = wrsLast.arg
              /\ nextFree(tagged_) = wrsLast.arg
        /\ op = "nextFree" /\ wrsLast.prevOp = "free" =>
              /\ wrsFailed = ""
              /\ tagged_ = wrsLast.pre
              /\ state(tagged_) = Free

\* A slot holding a referent was freed onto a non-empty list.
C20_Witness ==
    /\ wrsLast.op = "free"
    /\ state(wrsLast.pre) = Unmarked
    /\ hasPointer(wrsLast.pre)
    /\ wrsLast.arg # 0
    /\ nextFree(tagged_) = wrsLast.arg


\* C37: right after clearPointer() hasPointer() and hasValue() are false;
\* on a slot that holds no pointer a mark() or an unmark() that meets its
\* assertion leaves both false; a free(next) on such a slot leaves the slot
\* in state Free with hasPointer() and hasValue() false when next is null,
\* and true when next is a non-null slot (the word then holds the link);
\* reset(v) makes both true again.
C37_ClearedUntilFreedOntoAList ==
    LET op == wrsLast.op
        pre == wrsLast.pre
    IN  /\ op = "clearPointer" => ~hasPointer(tagged_) /\ ~hasValue(tagged_)
        /\ (wrsFailed = "" /\ pre <= Free /\ op \in {"mark", "unmark"}) =>
              ~hasPointer(tagged_) /\ ~hasValue(tagged_)
        /\ (wrsFailed = "" /\ pre <= Free /\ op = "free") =>
              /\ state(tagged_) = Free
              /\ hasPointer(tagged_) <=> wrsLast.arg # 0
              /\ hasValue(tagged_) <=> wrsLast.arg # 0
        /\ (wrsFailed = "" /\ op = "reset") => hasPointer(tagged_) /\ hasValue(tagged_)

\* The statement as claimed: no pointer after mark, unmark or free(next) on
\* a cleared slot, and no value in state Free.
C37_ClearedStaysCleared ==
    /\ (/\ wrsFailed = ""
        /\ wrsLast.pre <= Free
        /\ wrsLast.op \in {"mark", "unmark", "free"}) =>
          ~hasPointer(tagged_) /\ ~hasValue(tagged_)
    /\ (wrsFailed = "" /\ state(tagged_) = Free) => ~hasValue(tagged_)

\* A cleared slot was freed onto a non-empty free list.
C37_Witness ==
    /\ wrsFailed = ""
    /\ wrsLast.op = "free"
    /\ wrsLast.prevOp = "clearPointer"
    /\ wrsLast.pre = Unmarked
    /\ wrsLast.arg # 0
    /\ hasValue(tagged_)


(***************************************************************************)
(*                          Claims: IDTracker                              *)
(***************************************************************************)

\* C2: no two distinct tracked addresses are mapped to the same ID (a
\* moveObject onto a tracked destination stops at its assertion and is not
\* part of the sequences the claim is about).
C2_IDsUnique ==
    \A a \in DOMAIN objectIDMap_ : \A b \in DOMAIN objectIDMap_ :
        a # b => objectIDMap_[a] # objectIDMap_[b]

\* Addresses with heap IDs and with native IDs are tracked at once, and the
\* last call moved one of them.
C2_Witness ==
    /\ Cardinality(DOMAIN objectIDMap_) >= 2
    /\ \E a \in DOMAIN objectIDMap_ : objectIDMap_[a] % 2 = 0
    /\ \E a \in DOMAIN objectIDMap_ : objectIDMap_[a] % 2 = 1
    /\ idtLast.op = "moveObject"
    /\ objectIDMap_ # idtLast.pre.map

\* C9: after moveObject(p, q) with p tracked, p # q and q not tracked, q has
\* exactly the ID p had, p is no longer tracked and every other address keeps
\* its mapping.
C9_MoveObject ==
    LET p == idtLast.a
        q == idtLast.b
        m0 == idtLast.pre.map
    IN  (/\ idtLast.op = "moveObject"
         /\ p # q
         /\ p \in DOMAIN m0
         /\ q \notin DOMAIN m0)
        => /\ idtFailed = ""
           /\ q \in DOMAIN objectIDMap_
           /\ objectIDMap_[q] = m0[p]
           /\ p \notin DOMAIN objectIDMap_
           /\ \A x \in Addrs \ {p, q} :
                 /\ x \in DOMAIN objectIDMap_ <=> x \in DOMAIN m0
                 /\ x \in DOMAIN m0 => objectIDMap_[x] = m0[x]

\* A tracked address was moved to an untracked one while a third address
\* was tracked as well.
C9_Witness ==
    /\ idtLast.op = "moveObject"
    /\ idtLast.a # idtLast.b
    /\ idtLast.a \in DOMAIN idtLast.pre.map
    /\ idtLast.b \notin DOMAIN idtLast.pre.map
    /\ Cardinality(DOMAIN idtLast.pre.map) = 2

\* C10: getObjectID(p) called again, with no moveObject or untrackObject
\* (untrackNative is a call of untrackObject) touching p since the last
\* getObjectID(p), returns the same ID and changes neither the map nor the
\* two counters.
C10_GetObjectIDStable ==
    (/\ idtLast.op = "getObjectID"
     /\ idtLast.preSeen[idtLast.a] # NoID)
    => /\ idtFailed = ""
       /\ idtLast.ret = idtLast.preSeen[idtLast.a]
       /\ IdtState = idtLast.pre

\* The second getObjectID(p) comes after other addresses were given IDs, so
\* that a fresh ID would differ from the first answer.
C10_Witness ==
    /\ idtLast.op = "getObjectID"
    /\ idtLast.preSeen[idtLast.a] # NoID
    /\ idtLast.ret = idtLast.preSeen[idtLast.a]
    /\ idtLast.pre.nextID > idtLast.ret
    /\ idtLast.pre.nextNativeID > FirstNonReservedID + 1

\* The last call was a getObjectID / getNativeID that found the address
\* untracked and assigned it a new ID.
AssignedNew(op) ==
    /\ idtLast.op = op
    /\ idtLast.a \notin DOMAIN idtLast.pre.map
    /\ idtFailed = ""

\* C11: an ID newly assigned by getObjectID is greater than every ID
\* getObjectID assigned before, and likewise for getNativeID; a newly
\* assigned ID was never handed out before by either function, whatever was
\* untracked in between.
C11_NeverReused ==
    /\ AssignedNew("getObjectID") =>
          /\ \A id \in idtLast.preIssued.object : idtLast.ret > id
          /\ idtLast.ret \notin idtLast.preIssued.object \cup idtLast.preIssued.native
    /\ AssignedNew("getNativeID") =>
          /\ \A id \in idtLast.preIssued.native : idtLast.ret > id
          /\ idtLast.ret \notin idtLast.preIssued.object \cup idtLast.preIssued.native

\* Heap and native IDs were handed out, every address was untracked again,
\* and an address is queried anew.
C11_Witness ==
    /\ AssignedNew("getObjectID")
    /\ idtLast.pre.map = <<>>
    /\ idtLast.preIssued.object # {}
    /\ idtLast.preIssued.native # {}
    /\ objectIDMap_[idtLast.a] = idtLast.ret

\* C12 as stated: every ID getObjectID returns is even and every ID
\* getNativeID returns is odd.
C12_ParityOfEveryReturn ==
    /\ (idtLast.op = "getObjectID" /\ idtFailed = "") => idtLast.ret % 2 = 0
    /\ (idtLast.op = "getNativeID" /\ idtFailed = "") => idtLast.ret % 2 = 1

\* C12, amended: every ID newly assigned by getObjectID is even and every ID
\* newly assigned by getNativeID is odd, so the IDs the two functions hand
\* out are disjoint; a query of an address that is already tracked returns
\* the ID stored for it, whichever function assigned it, so it has the parity
\* of the function asked whenever the stored ID came from that function.
C12_ParityOfAssignedIDs ==
    /\ \A id \in idtIssued.object : id % 2 = 0
    /\ \A id \in idtIssued.native : id % 2 = 1
    /\ \A a \in DOMAIN objectIDMap_ :
          objectIDMap_[a] \in idtIssued.object \cup idtIssued.native
    /\ \A op \in {"getObjectID", "getNativeID"} :
          (idtLast.op = op /\ idtFailed = "") =>
             IF idtLast.a \in DOMAIN idtLast.pre.map
               THEN idtLast.ret = idtLast.pre.map[idtLast.a]
               ELSE idtLast.ret \in (IF op = "getObjectID" THEN idtIssued.object
                                                            ELSE idtIssued.native)

\* getNativeID assigned a new ID while heap IDs and another native ID were
\* tracked.
C12_Witness ==
    /\ AssignedNew("getNativeID")
    /\ idtLast.ret % 2 = 1
    /\ \E a \in DOMAIN idtLast.pre.map : idtLast.pre.map[a] % 2 = 0
    /\ \E a \in DOMAIN idtLast.pre.map : idtLast.pre.map[a] % 2 = 1

\* This step is a call moveObject(oldLocation, newLocation).
MoveStep(oldLocation, newLocation) ==
    /\ idtLast'.op = "moveObject"
    /\ idtLast'.a = oldLocation
    /\ idtLast'.b = newLocation

\* C13: with A and C tracked and B not, moveObject(A, B) followed by
\* moveObject(C, A) leaves B with A's ID and A with C's ID, C untracked and
\* every other entry as it was; moveObject(C, A) while A is still tracked
\* stops at the assertion and changes nothing.
C13_MoveOrdering ==
    /\ [][\A A \in Addrs, B \in Addrs, C \in Addrs :
            (/\ Cardinality({A, B, C}) = 3
             /\ idtLast.op = "moveObject" /\ idtLast.a = A /\ idtLast.b = B
             /\ idtFailed = ""
             /\ {A, C} \subseteq DOMAIN idtLast.pre.map
             /\ B \notin DOMAIN idtLast.pre.map
             /\ MoveStep(C, A))
            => /\ idtFailed' = ""
               /\ objectIDMap_' =
                     [x \in ((DOMAIN idtLast.pre.map) \ {C}) \cup {B} |->
                        IF x = B THEN idtLast.pre.map[A]
                        ELSE IF x = A THEN idtLast.pre.map[C]
                        ELSE idtLast.pre.map[x]]]_vars
    /\ [][\A A \in Addrs, C \in Addrs :
            (/\ A # C
             /\ {A, C} \subseteq DOMAIN objectIDMap_
             /\ idtFailed = ""
             /\ MoveStep(C, A))
            => /\ idtFailed' = "Moving to a location that is already tracked"
               /\ objectIDMap_' = objectIDMap_]_vars

\* moveObject(C, A) has succeeded while B was tracked and A was free, as
\* after a pass that recorded A -> B first: A and B now hold two different
\* IDs and C none.
C13_Witness ==
    /\ idtLast.op = "moveObject"
    /\ idtFailed = ""
    /\ idtLast.a # idtLast.b
    /\ DOMAIN idtLast.pre.map = Addrs \ {idtLast.b}
    /\ DOMAIN objectIDMap_ = Addrs \ {idtLast.a}
    /\ objectIDMap_[idtLast.b] = idtLast.pre.map[idtLast.a]

\* C14: moveObject(old, new) with old = new, or with old not tracked, changes
\* neither the map nor a counter and fails no assertion; no moveObject ever
\* changes a counter.
C14_MoveObjectNoOp ==
    idtLast.op = "moveObject" =>
       /\ nextID_ = idtLast.pre.nextID
       /\ nextNativeID_ = idtLast.pre.nextNativeID
       /\ (idtLast.a = idtLast.b \/ idtLast.a \notin DOMAIN idtLast.pre.map) =>
             /\ IdtState = idtLast.pre
             /\ idtFailed = ""

\* moveObject(p, p) was called on a tracked address while another address
\* was tracked too.
C14_Witness ==
    /\ idtLast.op = "moveObject"
    /\ idtLast.a = idtLast.b
    /\ idtLast.a \in DOMAIN idtLast.pre.map
    /\ Cardinality(DOMAIN objectIDMap_) >= 2
    /\ IdtState = idtLast.pre

\* C28: a getObjectID / getNativeID that has to assign an ID ends in a fatal
\* error, assigning nothing, when its counter is at NodeID max minus kIDStep
\* or above; below that bound it returns counter + kIDStep, computed without
\* overflow; so no ID in the map and neither counter has ever wrapped around.
C28_NoWrapAround ==
    LET op == idtLast.op
        pre == idtLast.pre
        counter == IF op = "getObjectID" THEN pre.nextID ELSE pre.nextNativeID
        message == IF op = "getObjectID" THEN "Ran out of object IDs"
                                         ELSE "Ran out of native IDs"
    IN  /\ op \in {"getObjectID", "getNativeID"} /\ idtLast.a \notin DOMAIN pre.map =>
              IF counter >= NodeIDMax - kIDStep
                THEN /\ idtFailed = message
                     /\ idtLast.a \notin DOMAIN objectIDMap_
                     /\ IdtState = pre
                ELSE /\ idtFailed = ""
                     /\ counter + kIDStep <= NodeIDMax
                     /\ idtLast.ret = counter + kIDStep
                     /\ objectIDMap_[idtLast.a] = counter + kIDStep
        /\ \A a \in DOMAIN objectIDMap_ :
              FirstNonReservedID < objectIDMap_[a] /\ objectIDMap_[a] <= NodeIDMax
        /\ FirstNonReservedID <= nextID_ /\ nextID_ <= NodeIDMax
        /\ FirstNonReservedID <= nextNativeID_ /\ nextNativeID_ <= NodeIDMax

\* The native counter is exhausted: getNativeID for an untracked block ended
\* in the fatal error while object IDs can still be assigned.
C28_Witness ==
    /\ idtLast.op = "getNativeID"
    /\ idtFailed = "Ran out of native IDs"
    /\ idtLast.pre.nextNativeID >= NodeIDMax - kIDStep
    /\ idtLast.pre.nextID < NodeIDMax - kIDStep
    /\ idtLast.a \notin DOMAIN objectIDMap_

\* C39: whatever the number of reserved IDs, even or odd, every ID that
\* nextObjectID or nextNativeID hands out - the ID getObjectID or
\* getNativeID returns for an address it starts to track - is greater than
\* FirstNonReservedID, so it is not NoID, Root or the ID of a root section.
C39_NoReservedID ==
    (idStart.op \in {"nextObjectID", "nextNativeID"} /\ idStart.failed = "") =>
        /\ idStart.ret > idStart.first
        /\ idStart.ret # NoID
        /\ idStart.ret \notin 0..idStart.first

\* The first native ID of a tracker whose FirstNonReservedID is odd.
C39_Witness ==
    /\ idStart.first % 2 = 1
    /\ idStart.op = "nextNativeID"
    /\ idStart.failed = ""
    /\ idStart.ret = idStart.first + 2 + kIDStep


(***************************************************************************)
(*                        Claims: SegmentedArray                           *)
(***************************************************************************)

\* What a collection that traces the array cell relies on: numSlotsUsed_ is
\* inside the cell, every slot below it is initialized, and a slot that
\* points to a segment points to an allocated one whose elements below its
\* length are initialized.
SlotsTraceable(cell, segs) ==
    /\ cell.numSlotsUsed <= cell.slotCapacity
    /\ \A i \in DOMAIN cell.slots :
          i < cell.numSlotsUsed =>
             /\ isInitialized(cell.slots[i])
             /\ isSegment(cell.slots[i]) =>
                   /\ segs[cell.slots[i][2]].live
                   /\ \A j \in 0..(segs[cell.slots[i][2]].length - 1) :
                         isInitialized(segs[cell.slots[i][2]].data[j])

\* C3: at every allocation point of a growth, every live array is traceable:
\* each slot in [0, numSlotsUsed_) holds empty, an initialized element or a
\* pointer to an allocated segment, and each element in [0, length) of such a
\* segment is initialized.  The allocation points are the states with
\* saOp.stage = "alloc" (Segment::create is about to run) and the states a
\* call is entered in (SegmentedArray::create runs before the call has
\* changed anything).
C3_SlotsInitialized ==
    \A r \in Roots(saOp.target) : SlotsTraceable(Heap[r], segments)

\* growLeft is reallocating: the first segment of the new array is allocated,
\* the second is about to be, and the old array has a segment of its own.
C3_Witness ==
    /\ saOp.stage = "alloc"
    /\ saOp.name = "growLeft"
    /\ saOp.target = "new"
    /\ saOp.done # <<>>
    /\ self.numSlotsUsed > kValueToSegmentThreshold
    /\ newSegmentedArray.numSlotsUsed > kValueToSegmentThreshold + 1

\* C4: at every allocation point of one increaseSize, each segment this
\* growth has allocated so far still has length 0, and the segment that was
\* the last one before the growth still has the length it had.
C4_LengthsAfterAllocations ==
    saOp.stage = "alloc" =>
       LET cell == Heap[saOp.target]
           allocated == {saOp.done[k] : k \in DOMAIN saOp.done}
           pending == {saOp.toAlloc[k] : k \in DOMAIN saOp.toAlloc}
       IN  /\ \A s \in allocated : segments[segmentID(cell, s)].length = 0
           /\ saOp.startSegment \notin allocated \cup pending =>
                 segments[segmentID(cell, saOp.startSegment)].length
                    = toInterior(saOp.oldSize - 1) + 1

\* A growth that allocates two segments is at its second allocation point.
C4_Witness ==
    /\ saOp.stage = "alloc"
    /\ Len(saOp.done) >= 1
    /\ saOp.toAlloc # <<>>
    /\ segments[segmentID(Heap[saOp.target], saOp.done[1])].live

\* The elements of the array when the call now running, or about to run,
\* was entered.
Pre == IF saOp.stage = "idle" THEN Elements(self, segments) ELSE saOp.pre

\* This step is the return of a call of name (the call's only step, or the
\* step after its last allocation) with status RETURNED.
Returns(name) ==
    /\ saLast'.op = name
    /\ saLast'.status = "RETURNED"
    /\ saOp'.stage = "idle"
    /\ saFailed' = ""

\* C5: a created array has size 0, and each push_back that returns leaves
\* the array one element longer, with the pushed value last and every
\* earlier element unchanged; so N push_back calls on a created array give
\* size N with at(i) the i-th pushed value.
C5_PushBack ==
    /\ size(self, segments) = 0
    /\ [][Returns("push_back") =>
            \E value \in PushValues :
               /\ saOp.stage = "alloc" => saOp.value = encodeNumber(value)
               /\ Elements(self', segments') = Append(Pre, encodeNumber(value))]_vars

\* Three push_back calls on a created array of capacity 2: the third one
\* crossed the inline threshold and reallocated.
C5_Witness ==
    /\ Idle
    /\ saLast.op = "push_back"
    /\ saLast.path = "realloc"
    /\ saLast.status = "RETURNED"
    /\ size(self, segments) = kValueToSegmentThreshold + 1
    /\ \A i \in 0..kValueToSegmentThreshold : at(self, segments, i) = encodeNumber(1)

\* C6: a growLeft(amount) that returns, in place or reallocating, leaves
\* amount empty values followed by the old elements in their old order.
C6_GrowLeft ==
    [][Returns("growLeft") =>
          Elements(self', segments')
             = [i \in 1..saLast'.amount |-> EmptyValue] \o Pre]_vars

\* growLeft(2) reallocated an array of three elements whose first one was a
\* pushed value.
C6_Witness ==
    /\ Idle
    /\ saLast.op = "growLeft"
    /\ saLast.path = "realloc"
    /\ saLast.status = "RETURNED"
    /\ saLast.amount = 2
    /\ size(self, segments) = MaxSize
    /\ at(self, segments, 2) = encodeNumber(1)
    /\ isEmpty(at(self, segments, 0))

\* C7: a shrinkLeft(amount) that returns leaves the old elements from index
\* amount on, in their old order.
C7_ShrinkLeft ==
    [][Returns("shrinkLeft") =>
          Elements(self', segments') = SubSeq(Pre, saLast'.amount + 1, Len(Pre))]_vars

\* shrinkLeft(2) moved elements out of a segment into inline storage and
\* left the array with a segment still in use.
C7_Witness ==
    /\ Idle
    /\ saLast.op = "shrinkLeft"
    /\ saLast.amount = 2
    /\ size(self, segments) = kValueToSegmentThreshold + 1
    /\ at(self, segments, 0) = encodeNumber(1)
    /\ isEmpty(at(self, segments, 1))

\* C8: after a grow or shrink call has returned, every slot at a logical
\* index in [size, capacity) that lies in inline storage or inside an
\* allocated segment of the array holds empty.
C8_UnusedSlotsEmpty ==
    (Idle /\ saLast.op # "create" /\ saLast.status = "RETURNED") =>
       \A index \in size(self, segments)..(capacity(self) - 1) :
          IF index < kValueToSegmentThreshold
            THEN isEmpty(self.slots[index])
            ELSE LET slot == kValueToSegmentThreshold + toSegment(index)
                 IN  (slot < self.numSlotsUsed /\ isSegment(self.slots[slot])) =>
                        isEmpty(segments[self.slots[slot][2]].data[toInterior(index)])

\* C23: a growRight(amount) or growLeft(amount) allocates a new array cell
\* if and only if size() + amount exceeds capacity(); with size() + amount
\* <= capacity(), equality included, it grows in place.
C23_ReallocIffExceeds ==
    [][(Idle /\ saLast'.op \in {"growRight", "growLeft"}) =>
          /\ saLast'.path = "realloc" <=>
                size(self, segments) + saLast'.amount > capacity(self)
          /\ saLast'.path = "inplace" <=>
                size(self, segments) + saLast'.amount <= capacity(self)]_vars

\* C24: a shrinkRight(amount) or shrinkLeft(amount) returns without reaching
\* an allocation, builds no new cell, leaves slotCapacity_ and every segment
\* pointer of the array in place and keeps every Segment cell alive; and
\* shrinkRight changes nothing but numSlotsUsed_ and the length of the
\* segment that becomes the last live one, so every element below the new
\* size is what it was.
C24_ShrinkFrame ==
    [][(Idle /\ saLast'.op \in {"shrinkRight", "shrinkLeft"}) =>
          LET newSize == size(self, segments) - saLast'.amount
              last == IF newSize > kValueToSegmentThreshold
                        THEN {segmentID(self, toSegment(newSize - 1))} ELSE {}
          IN  /\ saOp' = IdleOp /\ saFailed' = "" /\ saLast'.status = "RETURNED"
              /\ newSegmentedArray' = newSegmentedArray
              /\ self'.slotCapacity = self.slotCapacity
              /\ DOMAIN self'.slots = DOMAIN self.slots
              /\ \A i \in DOMAIN self.slots :
                    i >= kValueToSegmentThreshold => self'.slots[i] = self.slots[i]
              /\ \A id \in SegIds : segments'[id].live = segments[id].live
              /\ size(self', segments') = newSize
              /\ saLast'.op = "shrinkRight" =>
                    /\ self'.slots = self.slots
                    /\ \A id \in SegIds :
                          /\ segments'[id].data = segments[id].data
                          /\ id \notin last => segments'[id] = segments[id]
                    /\ Elements(self', segments')
                          = SubSeq(Elements(self, segments), 1, newSize)]_vars

\* shrinkRight truncated a segment and left a later segment of the array
\* behind, still pointed to from a slot above numSlotsUsed_.
C24_Witness ==
    /\ Idle
    /\ saLast.op = "shrinkRight"
    /\ saLast.amount >= 1
    /\ size(self, segments) > kValueToSegmentThreshold
    /\ segments[segmentID(self, toSegment(size(self, segments) - 1))].length < kMaxLength
    /\ self.numSlotsUsed < self.slotCapacity
    /\ isSegment(self.slots[self.numSlotsUsed])
    /\ segments[self.slots[self.numSlotsUsed][2]].live

\* The segment numbers in a sequence, and a sequence in ascending order.
Range(seq) == {seq[k] : k \in DOMAIN seq}
Ascending(seq) == \A j, k \in DOMAIN seq : j < k => seq[j] < seq[k]

\* An allocation point of increaseSize: what is allocated so far and what is
\* still to come are in ascending order and are exactly the empty slots of
\* startSegment .. lastSegment; the assertion in allocateSegment has not failed.
C30_AtAllocationPoints ==
    /\ saFailed # "Allocating into a non-empty segment"
    /\ saOp.stage = "alloc" =>
          LET cell == Heap[saOp.target]
              slot(n) == cell.slots[kValueToSegmentThreshold + n]
              touched == saOp.startSegment..saOp.lastSegment
          IN  /\ saOp.finalSize > kValueToSegmentThreshold
              /\ saOp.lastSegment = toSegment(saOp.finalSize - 1)
              /\ Ascending(saOp.done \o saOp.toAlloc)
              /\ Range(saOp.toAlloc) = {n \in touched : isEmpty(slot(n))}
              /\ Range(saOp.done) \subseteq touched
              /\ \A n \in 0..saOp.lastSegment :
                    n \notin Range(saOp.toAlloc) =>
                       isSegment(slot(n)) /\ segments[slot(n)[2]].live

\* C30: an increaseSize that ends above the inline threshold allocates its
\* segments in ascending segment-number order, one for each segment number
\* in startSegment .. toSegment(finalSize - 1) whose slot is empty and none
\* for a slot that holds a segment; and when the call returns every segment
\* number 0 .. toSegment(finalSize - 1) is allocated, the last with length
\* toInterior(finalSize - 1) + 1 and the earlier ones from startSegment on
\* with length Segment::kMaxLength.
C30_SegmentsAllocatedInOrder ==
    /\ []C30_AtAllocationPoints
    /\ [][(\E name \in {"push_back", "growRight", "growLeft"} : Returns(name)) =>
             LET oldSize == Len(Pre)
                 finalSize == oldSize + saLast'.amount
                 fresh == saLast'.op = "growLeft" /\ saLast'.path = "realloc"
                 startSegment == IF fresh \/ oldSize <= kValueToSegmentThreshold
                                   THEN 0 ELSE toSegment(oldSize - 1)
                 lastSegment == toSegment(finalSize - 1)
                 seg(n) == segments'[segmentID(self', n)]
             IN  /\ size(self', segments') = finalSize
                 /\ finalSize > kValueToSegmentThreshold =>
                       \A n \in 0..lastSegment :
                          /\ isSegment(self'.slots[kValueToSegmentThreshold + n])
                          /\ seg(n).live
                          /\ n = lastSegment =>
                                seg(n).length = toInterior(finalSize - 1) + 1
                          /\ startSegment <= n /\ n < lastSegment =>
                                seg(n).length = kMaxLength]_vars

\* A growth from inline storage to two segments is at its second allocation
\* point: segment 0 is allocated, segment 1 comes next.
C30_Witness ==
    /\ saOp.stage = "alloc"
    /\ saOp.oldSize <= kValueToSegmentThreshold
    /\ saOp.done = <<0>>
    /\ saOp.toAlloc = <<1>>
    /\ saOp.finalSize = kValueToSegmentThreshold + kMaxLength + 1

(***************************************************************************)
(*               Claims: root marking and weak collection                  *)
(***************************************************************************)

\* The order of the root sections, as the documentation lists it.
SectionOrder ==
    << "Registers", "RuntimeInstanceVars", "RuntimeModules", "CharStrings",
       "Builtins", "Prototypes", "IdentifierTable", "GCScopes",
       "SymbolRegistry", "SamplingProfiler", "Custom" >>

IsPrefix(a, b) == Len(a) <= Len(b) /\ SubSeq(b, 1, Len(a)) = a

MarkRootsReturned == gc.phase = "markRoots" /\ rtPc.fn = "none"

\* C26: during every call of Runtime::markRoots, with markLongLived set or
\* not, the sections the acceptor has seen begin are a prefix of Registers,
\* RuntimeInstanceVars, RuntimeModules, CharStrings, Builtins, Prototypes,
\* IdentifierTable, GCScopes, SymbolRegistry, SamplingProfiler, Custom; no
\* section begins while another is open and none ends while none is open;
\* the open section is the one begun last; every accept call is made with a
\* section open; and when markRoots returns all eleven sections have been
\* begun, in that order, and none is open.
C26_FixedSectionOrder ==
    gc.phase = "markRoots" =>
        /\ ~acceptor.misuse
        /\ IsPrefix(acceptor.begun, SectionOrder)
        /\ acceptor.open # "" => acceptor.open = acceptor.begun[Len(acceptor.begun)]
        /\ acceptor.last.call = "accept" =>
              /\ acceptor.last.section # ""
              /\ acceptor.last.section = acceptor.open
        /\ acceptor.last.call = "endRootSection" =>
              /\ acceptor.open = ""
              /\ acceptor.last.section = acceptor.begun[Len(acceptor.begun)]
        /\ MarkRootsReturned => acceptor.begun = SectionOrder /\ acceptor.open = ""

\* markRoots has returned after a call that presented a root in its last
\* section.
C26_Witness ==
    /\ MarkRootsReturned
    /\ Len(acceptor.begun) = Len(SectionOrder)
    /\ acceptor.last.call = "endRootSection"
    /\ acceptor.last.section = "Custom"

WeakParts == << "runtimeModules", "weakRefs", "custom" >>

Collected == gc.phase = "idle" /\ gcLast.op = "collect"

\* C21: the slot calls a collection makes never fail an assertion.  After a
\* collection that began with the slot holding a pointer to X, X strongly
\* unreachable and the weak reference alive, the weak reference is not
\* valid (hasValue() is false) and the slot is Unmarked.  After a
\* collection that began with no live weak reference for a slot in use, the
\* slot has been freed, by a free() called on it in state Unmarked.  A
\* referent that stayed strongly reachable stays in its slot.  The next
\* weak reference is created in a freed slot by reset(v), which succeeds
\* and leaves the slot Unmarked with value v.
C21_WeakReferenceEndToEnd ==
    /\ wrsFailed = ""
    /\ (/\ Collected
        /\ state(gcLast.word) = Unmarked /\ hasPointer(gcLast.word)
        /\ ~gcLast.referentStrong /\ gcLast.holderLive) =>
          /\ ~isValid(tagged_)
          /\ ~hasValue(tagged_)
          /\ state(tagged_) = Unmarked
          /\ wrsLast.op = "clearPointer"
    /\ (/\ Collected
        /\ state(gcLast.word) = Unmarked
        /\ ~gcLast.holderLive) =>
          /\ state(tagged_) = Free
          /\ wrsLast.op = "free"
          /\ wrsLast.pre = gcLast.word
          /\ ~weakRef.holderLive
    /\ (/\ Collected
        /\ state(gcLast.word) = Unmarked
        /\ gcLast.referentStrong /\ gcLast.holderLive) =>
          tagged_ = gcLast.word
    /\ gcLast.op = "newWeakRef" =>
          /\ wrsLast.op = "reset"
          /\ state(wrsLast.pre) = Free
          /\ state(tagged_) = Unmarked
          /\ hasValue(tagged_)
          /\ slotValue(tagged_) = wrsLast.arg
          /\ weakRef.holderLive

\* The whole life: the pointer was cleared by one collection, the slot was
\* freed by a later one, and now holds a new referent.
C21_Witness ==
    /\ gcLast.op = "newWeakRef"
    /\ wrsLast.op = "reset"
    /\ wrsLast.prevOp = "free"
    /\ wrsLast.prevPre = Unmarked
    /\ hasValue(tagged_)

Hooks ==
    { "creditExternalMemory", "debitExternalMemory",
      "writeBarrier(HermesValue)", "writeBarrier(void *)",
      "writeBarrierRange", "writeBarrierRangeFill" }

\* C29: a call of GCBase's own writeBarrier (either overload),
\* writeBarrierRange, writeBarrierRangeFill, creditExternalMemory or
\* debitExternalMemory, with any argument, leaves the collector's state, the
\* weak slot, the trackers, the arrays and the acceptor as they were, and
\* raises no failure.
C29_DefaultHooksInert ==
    [][(gc.phase = "idle" /\ gcLast'.op \in Hooks) =>
          /\ gc' = gc
          /\ wrsFailed' = "" /\ idtFailed' = idtFailed
          /\ UNCHANGED <<wrsVars, idtVars, saVars, capVars, resVars, weakRef, acceptor, rtPc>>]_vars

\* A default call made after a collection that cleared the slot's pointer.
C29_Witness ==
    /\ gcLast.op = "writeBarrierRangeFill"
    /\ wrsLast.op = "clearPointer"
    /\ gc.phase = "idle"

\* C34: between calls (after every create, grow, shrink, resize or push_back
\* that has returned) numSlotsUsed_ <= slotCapacity_; numSlotsUsed_ is
\* size() up to the inline threshold and the threshold plus the number of
\* segments size() needs above it; no Segment cell is longer than
\* kMaxLength; every slot of the array from the threshold up to
\* numSlotsUsed_ points to a live segment, each of them full except the
\* last, whose length is toInterior(size() - 1) + 1.
C34_Bookkeeping ==
    Idle =>
       LET sz == size(self, segments)
           numSegments == IF self.numSlotsUsed > kValueToSegmentThreshold
                            THEN self.numSlotsUsed - kValueToSegmentThreshold ELSE 0
       IN  /\ self.numSlotsUsed <= self.slotCapacity
           /\ self.numSlotsUsed =
                 IF sz <= kValueToSegmentThreshold
                   THEN sz
                   ELSE kValueToSegmentThreshold
                          + ((sz - kValueToSegmentThreshold + kMaxLength - 1) \div kMaxLength)
           /\ \A id \in SegIds : segments[id].live => segments[id].length <= kMaxLength
           /\ \A n \in 0..(numSegments - 1) :
                 LET slot == self.slots[kValueToSegmentThreshold + n]
                 IN  /\ isSegment(slot)
                     /\ segments[slot[2]].live
                     /\ segments[slot[2]].length =
                           IF n = numSegments - 1
                             THEN ((sz - 1 - kValueToSegmentThreshold) % kMaxLength) + 1
                             ELSE kMaxLength

\* A shrink has left the array with one element in its first segment and
\* the slot of a second segment no longer in use.
C34_Witness ==
    /\ Idle
    /\ saLast.op \in {"shrinkRight", "shrinkLeft"}
    /\ saLast.amount >= 1
    /\ size(self, segments) = kValueToSegmentThreshold + 1
    /\ self.numSlotsUsed = kValueToSegmentThreshold + 1
    /\ self.numSlotsUsed < self.slotCapacity
    /\ isSegment(self.slots[self.numSlotsUsed])

\* The value stored at logical index i of the array's storage, whether or
\* not i is below size(): inline storage, or the segment the slot points to.
Stored(cell, segs, index) ==
    IF index < kValueToSegmentThreshold
      THEN cell.slots[index]
      ELSE segs[cell.slots[kValueToSegmentThreshold + toSegment(index)][2]]
              .data[toInterior(index)]

\* C36: a right-growth by amount that returns (growRight in place or
\* reallocating, growRightWithinCapacity, a growing resize or
\* resizeWithinCapacity, and the increaseSize of create(capacity, size),
\* which is the same call on a created array) leaves the old elements in
\* place and every one of the amount new indices empty, whatever the
\* storage held there before: values an earlier shrinkRight left behind in
\* inline storage or inside a segment are not seen again.
C36_ExposedElementsEmpty ==
    [][Returns("growRight") =>
          /\ size(self', segments') = Len(Pre) + saLast'.amount
          /\ \A i \in 1..Len(Pre) : at(self', segments', i - 1) = Pre[i]
          /\ \A i \in (Len(Pre) + 1)..(Len(Pre) + saLast'.amount) :
                at(self', segments', i - 1) = EmptyValue]_vars

\* After a shrinkRight out of the second segment, a growRight in place has
\* re-exposed the last index of the first segment: it reads empty, while the
\* second segment, no longer in use, still holds the value pushed into it
\* before the shrink.
C36_Witness ==
    /\ Idle
    /\ saLast.op = "growRight"
    /\ saLast.path = "inplace"
    /\ saLast.amount >= 1
    /\ size(self, segments) = kValueToSegmentThreshold + kMaxLength
    /\ isEmpty(at(self, segments, kValueToSegmentThreshold + kMaxLength - 1))
    /\ at(self, segments, 0) = encodeNumber(1)
    /\ self.numSlotsUsed = kValueToSegmentThreshold + 1
    /\ self.slotCapacity > kValueToSegmentThreshold + 1
    /\ isSegment(self.slots[kValueToSegmentThreshold + 1])
    /\ Stored(self, segments, kValueToSegmentThreshold + kMaxLength) = encodeNumber(1)

\* C35: when a growRight that reallocates returns, the cell the handle
\* referred to before the call still has, in the heap as the call leaves it,
\* the size it had when the call was entered and the same element at every
\* index below that size.
C35_OldCellUntouched ==
    [][(Returns("growRight") /\ saLast'.path = "realloc") =>
          /\ size(self, segments') = Len(Pre)
          /\ \A i \in 1..Len(Pre) : at(self, segments', i - 1) = Pre[i]]_vars

(***************************************************************************)
(*             Claims: SegmentedArray beyond maxElements()                 *)
(***************************************************************************)

\* The calls that grow: the primitive the record of a call names.
GrowCalls == {"growRight", "growLeft", "resize", "resizeLeft", "push_back"}

\* C33: when growRight, growLeft, resize, resizeLeft or push_back needs a
\* new array (the sum of size and amount does not fit the capacity) and the
\* new array cannot be created (the sum is above maxElements()), the call
\* returns EXCEPTION, and every call that returns EXCEPTION leaves the handle
\* on the same cell with the same size, capacity and elements, no segment
\* touched, nothing stored by push_back.
C33_RangeErrorLeavesArray ==
    [][/\ LET sz == size(self, segments)
              sum == sz + saLast'.amount
              left == saLast'.op \in {"growLeft", "resizeLeft"}
              needsNew == IF left THEN ~(sum < capacity(self))
                                  ELSE ~(sum <= capacity(self))
          IN  /\ ( /\ saOp.stage = "idle"
                   /\ saFailed = ""
                   /\ saVars' # saVars
                   /\ saLast'.op \in GrowCalls
                   /\ sum <= SizeTypeMax
                   /\ needsNew
                   /\ sum > maxElements ) => saLast'.status = "EXCEPTION"
              /\ (saLast'.status = "EXCEPTION" /\ saVars' # saVars) =>
                    /\ self' = self
                    /\ segments' = segments
                    /\ size(self', segments') = sz
                    /\ capacity(self') = capacity(self)
                    /\ Elements(self', segments') = Elements(self, segments)
                    /\ saOp'.stage = "idle"
                    /\ saFailed' = ""
       /\ ( /\ capSelf.allocated
            /\ capVars' # capVars
            /\ capLast'.op = "push_back"
            /\ capSelf.size + 1 > capacity(capSelf)
            /\ capSelf.size + 1 > maxElements ) =>
              /\ capLast'.status = "EXCEPTION"
              /\ capSelf' = capSelf
              /\ capLast'.pushes = capLast.pushes]_vars

\* A resizeLeft beyond maxElements() has returned EXCEPTION on an array that
\* holds a pushed value.
C33_Witness ==
    /\ saLast.op = "resizeLeft"
    /\ saLast.status = "EXCEPTION"
    /\ saOp.stage = "idle"
    /\ size(self, segments) > kValueToSegmentThreshold
    /\ \E i \in 0..(size(self, segments) - 1) : at(self, segments, i) = encodeNumber(1)

\* C38: a call of growRight, growLeft, resize or push_back never leaves the
\* array smaller than it was, never returns with a size above
\* maxElements(), and, whenever the true sum of size and amount is above
\* maxElements() - a sum that no longer fits size_type included - returns
\* EXCEPTION with the array unchanged.
C38_NeverSmallerNeverAboveMax ==
    [][( /\ saOp.stage = "idle"
         /\ saFailed = ""
         /\ saVars' # saVars
         /\ saLast'.op \in {"growRight", "growLeft", "resize", "push_back"}
         /\ saOp'.stage = "idle" ) =>
           LET sz == size(self, segments)
               sum == sz + saLast'.amount
           IN  /\ size(self', segments') >= sz
               /\ size(self', segments') <= maxElements
               /\ sum > maxElements =>
                     /\ saLast'.status = "EXCEPTION"
                     /\ self' = self
                     /\ segments' = segments]_vars

(***************************************************************************)
(*                 Claims: the long-lived root sections                    *)
(***************************************************************************)

TrimStep ==
    /\ saOp' = saOp
    /\ saLast' = saLast
    /\ segments' = segments
    /\ \/ self'.slotCapacity < self.slotCapacity
       \/ newSegmentedArray'.slotCapacity < newSegmentedArray.slotCapacity

\* C31: with the trim callback running at any allocation point of
\* increaseSize and between any two calls, numSlotsUsed_ <= slotCapacity_
\* holds in every state; at every allocation point numSlotsUsed_ already
\* covers the slot of every segment still to allocate; a trim changes no
\* used slot, no segment, and neither the size nor the elements of the
\* handle's array; and every growth, trimmed on its way or not, returns with
\* the size raised by the amount, the old elements in place, and the size
\* within the capacity.
C31_TrimDuringGrowth ==
    /\ [](/\ self.numSlotsUsed <= self.slotCapacity
          /\ newSegmentedArray.numSlotsUsed <= newSegmentedArray.slotCapacity
          /\ DOMAIN self.slots = 0..(self.slotCapacity - 1)
          /\ (saOp.stage = "alloc" /\ saFailed = "") =>
                LET cell == Heap[saOp.target]
                IN  /\ cell.numSlotsUsed = numSlotsForCapacity(saOp.finalSize)
                    /\ DOMAIN cell.slots = 0..(cell.slotCapacity - 1)
                    /\ \A k \in 1..Len(saOp.toAlloc) :
                          kValueToSegmentThreshold + saOp.toAlloc[k] < cell.slotCapacity)
    /\ [][TrimStep =>
            /\ self'.numSlotsUsed = self.numSlotsUsed
            /\ self'.slotCapacity = self.numSlotsUsed
            /\ \A i \in 0..(self.numSlotsUsed - 1) : self'.slots[i] = self.slots[i]
            /\ newSegmentedArray'.numSlotsUsed = newSegmentedArray.numSlotsUsed
            /\ \A i \in 0..(newSegmentedArray.numSlotsUsed - 1) :
                  newSegmentedArray'.slots[i] = newSegmentedArray.slots[i]
            /\ (saOp.stage = "idle" \/ saOp.target = "new") =>
                  /\ size(self', segments') = size(self, segments)
                  /\ Elements(self', segments') = Elements(self, segments)]_vars
    /\ [][\A name \in {"growRight", "growLeft", "push_back"} :
            (Returns(name) /\ ~TrimStep) =>
              LET shift == IF name = "growLeft" THEN saLast'.amount ELSE 0
              IN  /\ size(self', segments') = Len(Pre) + saLast'.amount
                  /\ size(self', segments') <= capacity(self')
                  /\ self'.numSlotsUsed <= self'.slotCapacity
                  /\ \A i \in 1..Len(Pre) :
                        at(self', segments', shift + i - 1) = Pre[i]]_vars

\* A reallocating growRight was trimmed at an allocation point: the new
\* array, created with room to spare, has no slot left beyond the ones the
\* growth uses, and a segment is still to allocate.
C31_Witness ==
    /\ saOp.stage = "alloc"
    /\ saOp.target = "new"
    /\ saOp.name = "growRight"
    /\ saOp.toAlloc # <<>>
    /\ newSegmentedArray.slotCapacity = newSegmentedArray.numSlotsUsed
    /\ newSegmentedArray.slotCapacity
         < numSlotsForCapacity(calculateNewCapacity(saOp.oldSize, saOp.finalSize))

=============================================================================
